---- MODULE Spec2Model ----
(***************************************************************************)
(* Model of the titration-lab pH engine (src/js/chemistry.js) and of the   *)
(* readout/curve code that consumes it (src/js/ui.js).                     *)
(*                                                                         *)
(* chemistry.js is present in two variants in the repository: the          *)
(* piecewise Henderson-Hasselbalch variant (lines 1-316, definitions       *)
(* suffixed _hh here) and the exact charge-balance variant (lines 317-717, *)
(* source names kept).  The variable impl says which one is loaded.        *)
(*                                                                         *)
(* JavaScript numbers are modelled as binary floating-point values with    *)
(* round-to-nearest-even, infinities and NaN, an unbounded exponent and a  *)
(* 27-bit significand (binary64 has 53 bits): every arithmetic operation   *)
(* of the source is one rounded operation of the model.                    *)
(***************************************************************************)
EXTENDS Integers, Sequences, FiniteSets

(***************************************************************************)
(* Floating-point numbers: <<kind, m, e>>.                                 *)
(*   <<"fin", m, e>>  the value m * 2^e, m = 0 (then e = 0) or             *)
(*                    MinMant <= |m| < MaxMant                             *)
(*   <<"inf", s, 0>>  s = 1: +Infinity, s = -1: -Infinity                  *)
(*   <<"nan", 0, 0>>  NaN                                                  *)
(***************************************************************************)
MinMant == 2^26
MaxMant == 2^27

Zero == <<"fin", 0, 0>>
PosInf == <<"inf", 1, 0>>
NegInf == <<"inf", -1, 0>>
NaN == <<"nan", 0, 0>>
Float == STRING \X Int \X Int

IsNaN(x) == x[1] = "nan"
IsInf(x) == x[1] = "inf"
IsFin(x) == x[1] = "fin"
IsZero(x) == x[1] = "fin" /\ x[2] = 0

SgnI(i) == IF i > 0 THEN 1 ELSE IF i < 0 THEN -1 ELSE 0
AbsI(i) == IF i < 0 THEN -i ELSE i

\* n / 2^k rounded to the nearest integer, ties to even; sticky says that
\* non-zero bits were already dropped below n.
RoundShift(n, k, sticky) ==
  LET d == 2^k
      q == n \div d
      r == n % d
      h == d \div 2
  IN IF r > h \/ (r = h /\ (sticky \/ q % 2 = 1)) THEN q + 1 ELSE q

RECURSIVE NormUp(_, _, _)
NormUp(s, n, e) ==
  IF n >= MinMant THEN <<"fin", s * n, e>>
  ELSE IF n < 2^14 THEN NormUp(s, n * 2^12, e - 12)
  ELSE IF n < 2^22 THEN NormUp(s, n * 16, e - 4)
  ELSE NormUp(s, n * 2, e - 1)

\* The float nearest to s * n * 2^e (0 <= n < 2^31; sticky only when
\* n >= MaxMant).
Pack(s, n, e, sticky) ==
  IF n = 0 THEN Zero
  ELSE IF n < MaxMant THEN NormUp(s, n, e)
  ELSE LET k == IF n < 2^28 THEN 1 ELSE IF n < 2^29 THEN 2
                ELSE IF n < 2^30 THEN 3 ELSE 4
           q == RoundShift(n, k, sticky)
       IN IF q = MaxMant THEN <<"fin", s * MinMant, e + k + 1>>
          ELSE <<"fin", s * q, e + k>>

fFromInt[i \in Int] == Pack(SgnI(i), AbsI(i), 0, FALSE)

fNeg[x \in Float] == IF IsNaN(x) THEN NaN ELSE <<x[1], -x[2], x[3]>>
fAbs[x \in Float] == IF IsNaN(x) THEN NaN ELSE <<x[1], AbsI(x[2]), x[3]>>

\* x + y for finite non-zero x, y with x[3] >= y[3].
AddOrdered(x, y) ==
  LET d == x[3] - y[3]
      a == AbsI(x[2]) * 8
      b == AbsI(y[2]) * 8
      sx == SgnI(x[2])
      sy == SgnI(y[2])
  IN IF d > 30 THEN x
     ELSE IF d = 0
       THEN LET t == x[2] + y[2] IN Pack(SgnI(t), AbsI(t), x[3], FALSE)
       ELSE LET p == 2^d
                bq == b \div p
                st == (b % p) # 0
            IN IF sx = sy THEN Pack(sx, a + bq, x[3] - 3, st)
               ELSE Pack(sx, a - bq - (IF st THEN 1 ELSE 0), x[3] - 3, st)

fAdd[x \in Float, y \in Float] ==
  IF IsNaN(x) \/ IsNaN(y) THEN NaN
  ELSE IF IsInf(x) THEN (IF IsInf(y) /\ x[2] # y[2] THEN NaN ELSE x)
  ELSE IF IsInf(y) THEN y
  ELSE IF x[2] = 0 THEN y
  ELSE IF y[2] = 0 THEN x
  ELSE IF x[3] >= y[3] THEN AddOrdered(x, y) ELSE AddOrdered(y, x)

fSub[x \in Float, y \in Float] == fAdd[x, fNeg[y]]

fMul[x \in Float, y \in Float] ==
  IF IsNaN(x) \/ IsNaN(y) THEN NaN
  ELSE IF IsInf(x) \/ IsInf(y)
    THEN (IF x[2] = 0 \/ y[2] = 0 THEN NaN
          ELSE <<"inf", SgnI(x[2]) * SgnI(y[2]), 0>>)
  ELSE IF x[2] = 0 \/ y[2] = 0 THEN Zero
  ELSE LET a == AbsI(x[2])
           b == AbsI(y[2])
           a1 == a \div 16384
           a0 == a % 16384
           b1 == b \div 16384
           b0 == b % 16384
           lo == a0 * b0
           mid == a1 * b0 + a0 * b1 + (lo \div 16384)
           \* a * b = a1*b1 * 2^28 + mid * 2^14 + lo % 2^14
           n == a1 * b1 * 8 + (mid \div 2048)
           st == (mid % 2048 # 0) \/ (lo % 16384 # 0)
       IN Pack(SgnI(x[2]) * SgnI(y[2]), n, x[3] + y[3] + 25, st)

\* Long division, four quotient bits a step: <<quotient, remainder>> of
\* (q0 * b + r0) * 16^steps by b.
RECURSIVE DivSteps(_, _, _, _)
DivSteps(q, r, b, steps) ==
  IF steps = 0 THEN <<q, r>>
  ELSE DivSteps(q * 16 + ((r * 16) \div b), (r * 16) % b, b, steps - 1)

fDiv[x \in Float, y \in Float] ==
  IF IsNaN(x) \/ IsNaN(y) THEN NaN
  ELSE IF IsInf(x)
    THEN (IF IsInf(y) THEN NaN
          ELSE <<"inf", x[2] * (IF y[2] < 0 THEN -1 ELSE 1), 0>>)
  ELSE IF IsInf(y) THEN Zero
  ELSE IF y[2] = 0
    THEN (IF x[2] = 0 THEN NaN ELSE <<"inf", SgnI(x[2]), 0>>)
  ELSE IF x[2] = 0 THEN Zero
  ELSE LET a == AbsI(x[2])
           b == AbsI(y[2])
           qr == DivSteps(a \div b, a % b, b, 7)
       IN Pack(SgnI(x[2]) * SgnI(y[2]), qr[1], x[3] - y[3] - 28, qr[2] # 0)

\* floor(sqrt(m)) by Newton's iteration on integers, from x >= sqrt(m).
RECURSIVE Isqrt(_, _)
Isqrt(m, x) ==
  LET y == (x + (m \div x)) \div 2
  IN IF y >= x THEN x ELSE Isqrt(m, y)

\* <<R, exact>>: R = floor(sqrt(m * 2^28)) for 2^26 <= m < 2^28, and
\* whether R * R = m * 2^28.  With r0 = floor(sqrt(m)) and R = r0 * 2^14 + d,
\* d is the largest number with d * d <= 2^15 * (rem0 * 2^13 - d * r0).
SqrtBits(m) ==
  LET r0 == Isqrt(m, 16384)
      rem0 == m - r0 * r0
      est == (rem0 * 8192) \div r0
      dh == IF est > 16383 THEN 16383 ELSE est
      T(d) == rem0 * 8192 - d * r0
      Fits(d) == T(d) >= 65536 \/ d * d <= 32768 * T(d)
      d == IF Fits(dh) THEN dh ELSE IF Fits(dh - 1) THEN dh - 1 ELSE dh - 2
  IN <<r0 * 16384 + d, T(d) < 65536 /\ d * d = 32768 * T(d)>>

\* Math.sqrt, correctly rounded.
fSqrt[x \in Float] ==
  IF IsNaN(x) THEN NaN
  ELSE IF IsInf(x) THEN (IF x[2] > 0 THEN PosInf ELSE NaN)
  ELSE IF x[2] = 0 THEN Zero
  ELSE IF x[2] < 0 THEN NaN
  ELSE LET odd == x[3] % 2 # 0
           m == IF odd THEN x[2] * 2 ELSE x[2]
           e == IF odd THEN x[3] - 1 ELSE x[3]
           rr == SqrtBits(m)
       IN Pack(1, rr[1], (e - 28) \div 2, ~rr[2])

\* -1, 0, 1 for x < y, x = y, x > y; 2 when either is NaN.
Cmp(x, y) ==
  IF IsNaN(x) \/ IsNaN(y) THEN 2
  ELSE IF IsInf(x)
    THEN (IF IsInf(y) /\ x[2] = y[2] THEN 0 ELSE x[2])
  ELSE IF IsInf(y) THEN -y[2]
  ELSE LET sx == SgnI(x[2])
           sy == SgnI(y[2])
       IN IF sx # sy THEN (IF sx < sy THEN -1 ELSE 1)
          ELSE IF sx = 0 THEN 0
          ELSE IF x[3] # y[3] THEN (IF x[3] < y[3] THEN -sx ELSE sx)
          ELSE IF x[2] = y[2] THEN 0
          ELSE IF x[2] < y[2] THEN -1 ELSE 1

fLt[x \in Float, y \in Float] == Cmp(x, y) = -1
fLe[x \in Float, y \in Float] == Cmp(x, y) \in {-1, 0}
fGt[x \in Float, y \in Float] == Cmp(x, y) = 1
fGe[x \in Float, y \in Float] == Cmp(x, y) \in {0, 1}
fEq[x \in Float, y \in Float] == Cmp(x, y) = 0

\* Math.min / Math.max: NaN if either argument is NaN.
fMin[x \in Float, y \in Float] == IF IsNaN(x) \/ IsNaN(y) THEN NaN ELSE IF fLe[x, y] THEN x ELSE y
fMax[x \in Float, y \in Float] == IF IsNaN(x) \/ IsNaN(y) THEN NaN ELSE IF fGe[x, y] THEN x ELSE y

One == <<"fin", 67108864, -26>>           \* 1
Two == <<"fin", 67108864, -25>>           \* 2
Ten == <<"fin", 83886080, -23>>           \* 10

\* 10^n for a natural number n, by repeated multiplication.
RECURSIVE TenFrom(_, _)
TenFrom(x, n) ==
  IF n = 0 THEN x
  ELSE IF n = 1 THEN fMul[x, Ten]
  ELSE LET y == TenFrom(x, n \div 2)
       IN IF y = y THEN TenFrom(y, n - (n \div 2)) ELSE y

TenTo(n) == TenFrom(One, n)

\* The decimal literal i * 10^p of the source, rounded once where possible.
fLit[i \in Int, p \in Int] ==
  IF p >= 0 THEN fMul[fFromInt[i], TenTo(p)] ELSE fDiv[fFromInt[i], TenTo(-p)]

\* One fraction bit of log2(y) for 1 <= y < 2 (y = <<"fin", m, -26>>), by
\* squaring: s = <<y, bits so far as an integer>>.
Log2Bit(s, sq) ==
  IF sq[3] > -26 THEN <<<<"fin", sq[2], -26>>, s[2] * 2 + 1>> ELSE <<sq, s[2] * 2>>

\* n further fraction bits.
RECURSIVE Log2Bits(_, _)
Log2Bits(s, n) ==
  IF n = 0 THEN s
  ELSE IF n = 1 THEN Log2Bit(s, fMul[s[1], s[1]])
  ELSE LET t == Log2Bits(s, n \div 2)
       IN IF t = t THEN Log2Bits(t, n - (n \div 2)) ELSE t

Log10Of2 == <<"fin", 80807124, -28>>
Log2Of10 == <<"fin", 111465410, -25>>

\* Math.log10
fLog10[x \in Float] ==
  IF IsNaN(x) THEN NaN
  ELSE IF IsInf(x) THEN (IF x[2] > 0 THEN PosInf ELSE NaN)
  ELSE IF x[2] = 0 THEN NegInf
  ELSE IF x[2] < 0 THEN NaN
  ELSE LET bits == Log2Bits(<<<<"fin", x[2], -26>>, 0>>, 27)[2]
           log2 == fAdd[fFromInt[x[3] + 26], Pack(1, bits, -27, FALSE)]
       IN fMul[log2, Log10Of2]

\* PowTab[i] = 2^(2^-i), i = 1..27: each the square root of the one before.
RECURSIVE SqrtChain(_, _)
SqrtChain(x, n) ==
  IF n = 0 THEN <<>> ELSE LET r == fSqrt[x] IN <<r>> \o SqrtChain(r, n - 1)

PowTab == SqrtChain(Two, 27)

\* 2^h for 0 <= h < 1 given as the integer bits = h * 2^27: the product of
\* the PowTab[i] whose bit is set.
Exp2Bit(bits, i, acc) ==
  IF (bits \div (2^(27 - i))) % 2 = 1 THEN fMul[acc, PowTab[i]] ELSE acc

\* acc times the factors of the n bits from bit i on.
RECURSIVE Exp2Frac(_, _, _, _)
Exp2Frac(bits, i, n, acc) ==
  IF n = 0 THEN acc
  ELSE IF n = 1 THEN Exp2Bit(bits, i, acc)
  ELSE LET a == Exp2Frac(bits, i, n \div 2, acc)
       IN IF a = a THEN Exp2Frac(bits, i + (n \div 2), n - (n \div 2), a) ELSE a

\* floor(x) as an integer, for a finite x with |x| < 2^26.
FloorInt(x) ==
  IF x[2] = 0 THEN 0
  ELSE IF x[3] < -27 THEN (IF x[2] > 0 THEN 0 ELSE -1)
  ELSE LET d == 2^(-x[3])
           q == AbsI(x[2]) \div d
           r == AbsI(x[2]) % d
       IN IF x[2] > 0 THEN q ELSE IF r = 0 THEN -q ELSE -q - 1

\* The leading 27 fraction bits of h, 0 <= h < 1, as an integer.
FracBits(h) ==
  IF h[2] = 0 THEN 0
  ELSE IF h[3] < -54 THEN 0
  ELSE h[2] \div (2^(-27 - h[3]))

\* 10^n * 2^j * frac, for integers n and j and 1 <= frac < 2.
Pow10Scale(n, j, frac) ==
  IF n >= 0 THEN fMul[TenTo(n), <<"fin", frac[2], frac[3] + j>>]
  ELSE fDiv[<<"fin", frac[2], frac[3] + j>>, TenTo(-n)]

\* 10^n * 2^g for an integer n and 0 <= g < 3.33, j = floor(g).
Pow10Whole(n, g, j) == Pow10Scale(n, j, Exp2Frac(FracBits(fSub[g, fFromInt[j]]), 1, 27, One))

\* 10^n * 2^g
Pow10Frac(n, g) == Pow10Whole(n, g, FloorInt(g))

\* 10^x with n = floor(x): x - n is exact and 10^(x - n) = 2^((x - n) * log2(10)).
Pow10Split(x, n) == Pow10Frac(n, fMul[fSub[x, fFromInt[n]], Log2Of10])

\* 10 ** x
fPow10[x \in Float] ==
  IF IsNaN(x) THEN NaN
  ELSE IF IsInf(x) THEN (IF x[2] > 0 THEN PosInf ELSE Zero)
  ELSE IF x[2] # 0 /\ x[3] >= -17
    THEN (IF x[2] > 0 THEN PosInf ELSE Zero)    \* |x| >= 512
  ELSE Pow10Split(x, FloorInt(x))


\* The integer literal i and the decimal literal i * 10^p of the source.
FromInt(i) == fFromInt[i]
Lit(i, p) == fLit[i, p]

\* Call(f, args) is the value of the JavaScript operation or function f on
\* args: the arithmetic of numbers and the functions of chemistry.js.
RECURSIVE Call(_, _)
Add(x, y) == Call("+", <<x, y>>)
Sub(x, y) == Call("-", <<x, y>>)
Mul(x, y) == Call("*", <<x, y>>)
Div(x, y) == Call("/", <<x, y>>)
Sqrt(x) == Call("sqrt", <<x>>)
Log10(x) == Call("log10", <<x>>)
Pow10(x) == Call("pow10", <<x>>)
Neg(x) == Call("neg", <<x>>)
Abs(x) == Call("abs", <<x>>)
Lt(x, y) == Call("<", <<x, y>>)
Le(x, y) == Call("<=", <<x, y>>)
Gt(x, y) == Call(">", <<x, y>>)
Ge(x, y) == Call(">=", <<x, y>>)
Eq(x, y) == Call("===", <<x, y>>)
Min(x, y) == Call("min", <<x, y>>)
Max(x, y) == Call("max", <<x, y>>)


(***************************************************************************)
(* chemistry.js, shared constants and helpers.  The file holds two         *)
(* implementations of the solver: the piecewise Henderson-Hasselbalch one  *)
(* (lines 1-316, names suffixed _hh here) and the exact charge-balance one *)
(* (lines 317-717, source names kept).  The numeric literals of the source *)
(* are written out as the Float each one rounds to (LiteralsRounded).      *)
(***************************************************************************)
Kw == <<"fin", 94447330, -73>>            \* 1e-14
EPS_none == Zero                          \* 0 in the place of 1e-15
EPS == <<"fin", 75557864, -76>>           \* 1e-15
EPS_hh == <<"fin", 73786977, -66>>        \* 1e-12
EQ_ZONE == <<"fin", 85899346, -34>>       \* 0.005
Tol == <<"fin", 115292150, -60>>          \* the literal 1e-10 of the strong/strong branch
BandFactor_halfPercent == Lit(1005, -3)   \* 1.005 in the place of 1.001
BandFactor == <<"fin", 67175973, -26>>    \* the literal 1.001
Neutral == <<"fin", 117440512, -24>>      \* the literal 7.00
Fourteen == <<"fin", 117440512, -23>>     \* 14
Thousand == <<"fin", 131072000, -17>>     \* 1000
Half == <<"fin", 67108864, -27>>          \* 0.5
LoStart == <<"fin", 94447330, -73>>       \* let lo = 1e-14
Three == <<"fin", 100663296, -25>>        \* 3
Four == <<"fin", 67108864, -24>>          \* 4
AlphaCeil == <<"fin", 134217594, -27>>    \* the literal 0.999999 of binarySearchH
ZoneFraction_tenth == Lit(5, -4)           \* 0.0005 in the place of 0.005
ZoneFraction == <<"fin", 85899346, -34>>  \* the literal 0.005 of _weakAcidWeakBase
AlphaGuard2 == <<"fin", 134150619, -26>>  \* the literal 1.999 of _exactDiprotic
AlphaGuard3 == <<"fin", 100629742, -25>>  \* the literal 2.999 of _exactTriprotic
Iterations == 150                  \* for (let i = 0; i < 150; i++)

\* The named constants above are their decimal literals rounded to the
\* significand of Float.
LiteralsRounded ==
  /\ Kw = Lit(1, -14)
  /\ EPS = Lit(1, -15)
  /\ EPS_hh = Lit(1, -12)
  /\ EQ_ZONE = Lit(5, -3)
  /\ Tol = Lit(1, -10)
  /\ BandFactor = Lit(1001, -3)
  /\ Neutral = FromInt(7)
  /\ Fourteen = FromInt(14)
  /\ Thousand = FromInt(1000)
  /\ Half = Lit(5, -1)
  /\ LoStart = Lit(1, -14)
  /\ Three = FromInt(3)
  /\ Four = FromInt(4)
  /\ AlphaCeil = Lit(999999, -6)
  /\ ZoneFraction = Lit(5, -3)
  /\ AlphaGuard2 = Lit(1999, -3)
  /\ AlphaGuard3 = Lit(2999, -3)
  /\ One = FromInt(1)
  /\ Two = FromInt(2)
  /\ Ten = FromInt(10)

\* A return statement of the solver: the path taken and the value returned.
Ret(path, v) == [path |-> path, pH |-> v]

\* clampPH without the upper bound.
clampPH_noUpper(x) == Max(x, Zero)

clampPH(x) == Min(Max(x, Zero), Fourteen)

\* return clampPH(v): the record keeps v, the value handed to clampPH.
RetClamped(path, v) == [path |-> path, pH |-> clampPH(v), raw |-> v]

\* posQuadRoot without the test of the discriminant.
posQuadRoot_noGuard(a, b, c) ==
  LET disc == Sub(Mul(b, b), Mul(Mul(Four, a), c))
  IN Div(Add(Neg(b), Sqrt(disc)), Mul(Two, a))

posQuadRoot(a, b, c) ==
  LET disc == Sub(Mul(b, b), Mul(Mul(Four, a), c))
  IN IF Lt(disc, Zero) THEN Zero
     ELSE Div(Add(Neg(b), Sqrt(disc)), Mul(Two, a))

\* The if-condition that moves hi down to H in the loop body of each bisection.
MovesHi(sys, H) ==
  CASE sys.loop = "sbwa" ->
         LET A == Div(Mul(sys.C_total, sys.Ka), Add(H, sys.Ka))
             OH == Div(Kw, H)
             res == Sub(Sub(Add(H, sys.Na), A), OH)
         IN Gt(res, Zero)
    [] sys.loop = "sawb" ->
         LET BH == Div(Mul(sys.C_total, H), Add(H, sys.Ka))
             OH == Div(Kw, H)
             res == Sub(Sub(Add(H, BH), OH), sys.Cl)
         IN Gt(res, Zero)
    [] sys.loop = "wawb" ->
         LET OH == Div(Kw, H)
             Ka_conj == Div(Kw, sys.Kb)
             BH2 == Div(Mul(sys.C_total, H), Add(H, Ka_conj))
             res == Sub(Sub(Add(H, BH2), OH), sys.CHA)
         IN Gt(res, Zero)
    [] sys.loop = "diprotic" ->
         LET Ka1 == sys.Ka1
             Ka2 == sys.Ka2
             denom == Add(Add(Mul(H, H), Mul(Ka1, H)), Mul(Ka1, Ka2))
             alpha == Div(Add(Mul(Ka1, H), Mul(Mul(Two, Ka1), Ka2)), denom)
         IN Lt(alpha, sys.alpha_target)
    [] sys.loop = "triprotic" ->
         LET Ka1 == sys.Ka1
             Ka2 == sys.Ka2
             Ka3 == sys.Ka3
             denom == Add(Add(Add(Mul(Mul(H, H), H), Mul(Mul(Ka1, H), H)),
                              Mul(Mul(Ka1, Ka2), H)), Mul(Mul(Ka1, Ka2), Ka3))
             alpha == Div(Add(Add(Mul(Mul(Ka1, H), H), Mul(Mul(Mul(Two, Ka1), Ka2), H)),
                              Mul(Mul(Mul(Three, Ka1), Ka2), Ka3)), denom)
         IN Lt(alpha, sys.alpha_target)

\* One pass of a loop body that assigns H to both endpoints.
BisectStep_both(sys, s) ==
  LET H == Sqrt(Mul(s[1], s[2]))
  IN <<H, H>>

\* One pass of the loop body: H = sqrt(lo*hi), then hi = H or lo = H.
BisectStep(sys, s) ==
  LET H == Sqrt(Mul(s[1], s[2]))
  IN IF MovesHi(sys, H) THEN <<s[1], H>> ELSE <<H, s[2]>>

\* n passes of the loop body from the bracket s = <<lo, hi>>.
RECURSIVE Bisect(_, _, _)
Bisect(sys, n, s) ==
  IF n = 0 THEN s
  ELSE IF n = 1 THEN BisectStep(sys, s)
  ELSE LET y == Bisect(sys, n \div 2, s)
       IN IF y = y THEN Bisect(sys, n - (n \div 2), y) ELSE y

\* The value after the loop: Math.sqrt(lo * hi).
BisectRoot(sys, hi0) ==
  LET s == Bisect(sys, Iterations, <<LoStart, hi0>>)
  IN Sqrt(Mul(s[1], s[2]))

\* let lo = 1e-14, hi = hi0; the loop of sys; return clampPH(-Math.log10(
\* Math.sqrt(lo * hi))).  The record names the loop that was run.
RetLoop(path, sys, hi0) ==
  [path |-> path, pH |-> clampPH(Neg(Log10(BisectRoot(sys, hi0)))), sys |-> sys, hi0 |-> hi0]

\* A return of v after a loop from lo = 1e-14, hi = hi0 that breaks in its
\* first pass, before it assigns lo or hi.
RetBroken(path, v, sys, hi0) == [path |-> path, pH |-> v, sys |-> sys, hi0 |-> hi0]


(***************************************************************************)
(* The exact charge-balance implementation (chemistry.js lines 317-717).   *)
(***************************************************************************)
\* Called once, with alphaTarget = 0, by _strongBaseWeakAcid; its result is unused.
binarySearchH(sys, alphaTarget) ==
  IF Le(alphaTarget, Zero) THEN One
  ELSE IF Ge(alphaTarget, AlphaCeil) THEN LoStart
  ELSE BisectRoot(sys, Ten)

\* _strongBaseStrongAcid returning 7.00 only when the two amounts are equal.
_strongBaseStrongAcid_noTolerance(nAcid, nBase, Vt_L) ==
  LET diff == Sub(nAcid, nBase)
  IN IF Eq(diff, Zero) THEN Ret("neutral", Neutral)
     ELSE IF Gt(diff, Zero)
       THEN RetClamped("analyte_excess", Neg(Log10(Div(diff, Vt_L))))
       ELSE RetClamped("titrant_excess", Add(Fourteen, Log10(Div(Neg(diff), Vt_L))))

_strongBaseStrongAcid(nAcid, nBase, Vt_L) ==
  LET diff == Sub(nAcid, nBase)
  IN IF Lt(Abs(diff), Tol) THEN Ret("neutral", Neutral)
     ELSE IF Gt(diff, Zero)
       THEN RetClamped("analyte_excess", Neg(Log10(Div(diff, Vt_L))))
       ELSE RetClamped("titrant_excess", Add(Fourteen, Log10(Div(Neg(diff), Vt_L))))

\* _strongAcidStrongBase with the two branches of _strongBaseStrongAcid.
_strongAcidStrongBase_unmirrored(nBase, nAcid, Vt_L) ==
  LET diff == Sub(nBase, nAcid)
  IN IF Lt(Abs(diff), Tol) THEN Ret("neutral", Neutral)
     ELSE IF Gt(diff, Zero)
       THEN RetClamped("analyte_excess", Neg(Log10(Div(diff, Vt_L))))
       ELSE RetClamped("titrant_excess", Add(Fourteen, Log10(Div(Neg(diff), Vt_L))))

_strongAcidStrongBase(nBase, nAcid, Vt_L) ==
  LET diff == Sub(nBase, nAcid)
  IN IF Lt(Abs(diff), Tol) THEN Ret("neutral", Neutral)
     ELSE IF Gt(diff, Zero)
       THEN RetClamped("analyte_excess", Add(Fourteen, Log10(Div(diff, Vt_L))))
       ELSE RetClamped("titrant_excess", Neg(Log10(Div(Neg(diff), Vt_L))))

\* _strongBaseWeakAcid returning, in the buffer region, the H of its call of
\* binarySearchH instead of the H of its own loop.
_strongBaseWeakAcid_firstSearch(nHA_total, nOH, Vt_L, pKa) ==
  LET Ka == Pow10(Neg(pKa))
  IN IF Le(nOH, Zero)
       THEN RetClamped("initial", Neg(Log10(
              posQuadRoot(One, Ka, Div(Mul(Neg(Ka), nHA_total), Vt_L)))))
     ELSE IF Lt(nOH, nHA_total)
       THEN LET C_total == Div(nHA_total, Vt_L)
                Na == Div(nOH, Vt_L)
                sys == [loop |-> "sbwa", C_total |-> C_total, Ka |-> Ka, Na |-> Na]
                H == binarySearchH(sys, Zero)
            IN RetClamped("buffer", Neg(Log10(H)))
     ELSE IF Lt(nOH, Mul(nHA_total, BandFactor))
       THEN LET C == Div(nHA_total, Vt_L)
                Kb == Div(Kw, Ka)
            IN RetClamped("equivalence", Add(Fourteen, Log10(
                 posQuadRoot(One, Kb, Mul(Neg(Kb), C)))))
     ELSE RetClamped("excess", Add(Fourteen, Log10(Div(Sub(nOH, nHA_total), Vt_L))))

_strongBaseWeakAcid(nHA_total, nOH, Vt_L, pKa) ==
  LET Ka == Pow10(Neg(pKa))
  IN IF Le(nOH, Zero)
       THEN RetClamped("initial", Neg(Log10(
              posQuadRoot(One, Ka, Div(Mul(Neg(Ka), nHA_total), Vt_L)))))
     ELSE IF Lt(nOH, nHA_total)
       THEN LET C_total == Div(nHA_total, Vt_L)
                Na == Div(nOH, Vt_L)
                sys == [loop |-> "sbwa", C_total |-> C_total, Ka |-> Ka, Na |-> Na]
                H == binarySearchH(sys, Zero)
            IN RetLoop("buffer", sys, One)
     ELSE IF Lt(nOH, Mul(nHA_total, BandFactor))
       THEN LET C == Div(nHA_total, Vt_L)
                Kb == Div(Kw, Ka)
            IN RetClamped("equivalence", Add(Fourteen, Log10(
                 posQuadRoot(One, Kb, Mul(Neg(Kb), C)))))
     ELSE RetClamped("excess", Add(Fourteen, Log10(Div(Sub(nOH, nHA_total), Vt_L))))

_strongAcidWeakBase(nB_total, nH, Vt_L, pKb) ==
  LET Kb == Pow10(Neg(pKb))
      Ka == Div(Kw, Kb)
  IN IF Le(nH, Zero)
       THEN RetClamped("initial", Add(Fourteen, Log10(
              posQuadRoot(One, Kb, Div(Mul(Neg(Kb), nB_total), Vt_L)))))
     ELSE IF Lt(nH, nB_total)
       THEN LET C_total == Div(nB_total, Vt_L)
                Cl == Div(nH, Vt_L)
                sys == [loop |-> "sawb", C_total |-> C_total, Ka |-> Ka, Cl |-> Cl]
            IN RetLoop("buffer", sys, One)
     ELSE IF Lt(nH, Mul(nB_total, BandFactor))
       THEN LET C == Div(nB_total, Vt_L)
            IN RetClamped("equivalence", Neg(Log10(
                 posQuadRoot(One, Ka, Mul(Neg(Ka), C)))))
     ELSE RetClamped("excess", Neg(Log10(Div(Sub(nH, nB_total), Vt_L))))

\* _weakAcidWeakBase solving its excess branch with the Ka of the conjugate
\* acid of the flask base, Kw / Kb.
_weakAcidWeakBase_conjugate(nB_total, nHA_added, Vt_L, pKa, pKb) ==
  LET Kb == Pow10(Neg(pKb))
      Ka == Div(Kw, Kb)
      zone == Mul(nB_total, ZoneFraction)
  IN IF Le(nHA_added, Zero)
       THEN RetClamped("initial", Add(Fourteen, Log10(
              posQuadRoot(One, Kb, Div(Mul(Neg(Kb), nB_total), Vt_L)))))
     ELSE IF Lt(nHA_added, Sub(nB_total, zone))
       THEN LET C_total == Div(nB_total, Vt_L)
                sys == [loop |-> "wawb", C_total |-> C_total, Kb |-> Kb,
                        CHA |-> Div(nHA_added, Vt_L)]
            IN RetLoop("buffer", sys, One)
     ELSE IF Le(nHA_added, Add(nB_total, zone))
       THEN RetClamped("equivalence", Add(Neutral, Mul(Half, Sub(pKa, pKb))))
     ELSE LET nHA_excess == Sub(nHA_added, nB_total)
          IN RetClamped("excess", Neg(Log10(
               posQuadRoot(One, Ka, Div(Mul(Neg(Ka), nHA_excess), Vt_L)))))

\* The loop of the excess branch breaks in its first pass and assigns neither
\* lo nor hi: what is returned is the quadratic on Ka.
_weakAcidWeakBase(nB_total, nHA_added, Vt_L, pKa, pKb) ==
  LET Kb == Pow10(Neg(pKb))
      Ka == Pow10(Neg(pKa))
      zone == Mul(nB_total, ZoneFraction)
  IN IF Le(nHA_added, Zero)
       THEN RetClamped("initial", Add(Fourteen, Log10(
              posQuadRoot(One, Kb, Div(Mul(Neg(Kb), nB_total), Vt_L)))))
     ELSE IF Lt(nHA_added, Sub(nB_total, zone))
       THEN LET C_total == Div(nB_total, Vt_L)
                sys == [loop |-> "wawb", C_total |-> C_total, Kb |-> Kb,
                        CHA |-> Div(nHA_added, Vt_L)]
            IN RetLoop("buffer", sys, One)
     ELSE IF Le(nHA_added, Add(nB_total, zone))
       THEN RetClamped("equivalence", Add(Neutral, Mul(Half, Sub(pKa, pKb))))
     ELSE LET nHA_excess == Sub(nHA_added, nB_total)
              sys == [loop |-> "wawb_excess", C_A_total |-> Div(nB_total, Vt_L), Ka |-> Ka,
                      C_HA |-> Div(nHA_excess, Vt_L)]
          IN RetBroken("excess", clampPH(Neg(Log10(
               posQuadRoot(One, Ka, Div(Mul(Neg(Ka), nHA_excess), Vt_L))))), sys, One)


\* clampPH(14 + Math.log10(Math.max(Math.sqrt(Kb * C), EPS))) with Kb = Kw / KaLast
Hydrolysis(n_total, Vt_L, KaLast) ==
  LET C == Div(n_total, Vt_L)
      Kb == Div(Kw, KaLast)
  IN clampPH(Add(Fourteen, Log10(Max(Sqrt(Mul(Kb, C)), EPS))))

\* The stoichiometric distribution of _exactDiprotic: <<nH2A_r, nHA_r, nA2_r>>.
Species2(nH2A_total, nOH) ==
  LET Veq1 == nH2A_total
  IN IF Le(nOH, Zero) THEN <<nH2A_total, Zero, Zero>>
     ELSE IF Le(nOH, Veq1) THEN <<Sub(nH2A_total, nOH), nOH, Zero>>
     ELSE LET nA2_r == Sub(nOH, Veq1)
              nHA_r == Sub(Veq1, nA2_r)
          IN <<Zero, IF Lt(nHA_r, Zero) THEN Zero ELSE nHA_r, nA2_r>>

\* const total = nH2A_r + nHA_r + nA2_r
total2(r) == Add(Add(r[1], r[2]), r[3])

\* The protons left per molecule in the place of the protons removed.
alpha_target2_left(r) == Div(Add(Mul(Two, r[1]), r[2]), total2(r))

\* const alpha_target = (nHA_r + 2 * nA2_r) / total
alpha_target2(r) == Div(Add(r[2], Mul(Two, r[3])), total2(r))

_exactDiprotic(nH2A_total, nOH, Vt_L, Ka1, Ka2) ==
  LET Veq2 == Mul(Two, nH2A_total)
      r == Species2(nH2A_total, nOH)
      total == total2(r)
      alpha_target == alpha_target2(r)
      sys == [loop |-> "diprotic", Ka1 |-> Ka1, Ka2 |-> Ka2,
              alpha_target |-> alpha_target]
  IN IF Ge(nOH, Veq2)
       THEN IF Gt(nOH, Add(Veq2, EPS))
              THEN RetClamped("excess", Add(Fourteen, Log10(Div(Sub(nOH, Veq2), Vt_L))))
              ELSE Ret("at_last_eq", Hydrolysis(nH2A_total, Vt_L, Ka2))
     ELSE IF Lt(total, EPS)
       THEN Ret("underflow", Hydrolysis(nH2A_total, Vt_L, Ka2))
     ELSE IF Ge(alpha_target, AlphaGuard2)
       THEN Ret("alpha_guard", Hydrolysis(nH2A_total, Vt_L, Ka2))
     ELSE RetLoop("bisection", sys, Ten)

\* _strongBaseDiprotic passing Ka1 for both dissociation constants.
_strongBaseDiprotic_oneKa(nH2A, nOH, Vt_L, pKa1, pKa2) ==
  LET Ka1 == Pow10(Neg(pKa1))
  IN _exactDiprotic(nH2A, nOH, Vt_L, Ka1, Ka1)

_strongBaseDiprotic(nH2A, nOH, Vt_L, pKa1, pKa2) ==
  LET Ka1 == Pow10(Neg(pKa1))
      Ka2 == Pow10(Neg(pKa2))
  IN _exactDiprotic(nH2A, nOH, Vt_L, Ka1, Ka2)

\* The stoichiometric distribution of _exactTriprotic:
\* <<nH3A_r, nH2A_r, nHA2_r, nA3_r>>.
Species3(nH3A_total, nOH) ==
  LET Veq1 == nH3A_total
      Veq2 == Mul(Two, nH3A_total)
  IN IF Le(nOH, Zero) THEN <<nH3A_total, Zero, Zero, Zero>>
     ELSE IF Le(nOH, Veq1) THEN <<Sub(nH3A_total, nOH), nOH, Zero, Zero>>
     ELSE IF Le(nOH, Veq2)
       THEN LET nH2A_r == Sub(Veq1, Sub(nOH, Veq1))
            IN <<Zero, IF Lt(nH2A_r, Zero) THEN Zero ELSE nH2A_r, Sub(nOH, Veq1), Zero>>
     ELSE LET nHA2_r == Sub(Veq2, Sub(nOH, Veq2))
          IN <<Zero, Zero, IF Lt(nHA2_r, Zero) THEN Zero ELSE nHA2_r, Sub(nOH, Veq2)>>

\* const total = nH3A_r + nH2A_r + nHA2_r + nA3_r
total3(r) == Add(Add(Add(r[1], r[2]), r[3]), r[4])

\* const alpha_target = (nH2A_r + 2 * nHA2_r + 3 * nA3_r) / total
alpha_target3(r) ==
  Div(Add(Add(r[2], Mul(Two, r[3])), Mul(Three, r[4])), total3(r))

_exactTriprotic(nH3A_total, nOH, Vt_L, Ka1, Ka2, Ka3) ==
  LET Veq3 == Mul(Three, nH3A_total)
      r == Species3(nH3A_total, nOH)
      total == total3(r)
      alpha_target == alpha_target3(r)
      sys == [loop |-> "triprotic", Ka1 |-> Ka1, Ka2 |-> Ka2, Ka3 |-> Ka3,
              alpha_target |-> alpha_target]
  IN IF Ge(nOH, Veq3)
       THEN IF Gt(nOH, Add(Veq3, EPS))
              THEN RetClamped("excess", Add(Fourteen, Log10(Div(Sub(nOH, Veq3), Vt_L))))
              ELSE Ret("at_last_eq", Hydrolysis(nH3A_total, Vt_L, Ka3))
     ELSE IF Lt(total, EPS)
       THEN Ret("underflow", Hydrolysis(nH3A_total, Vt_L, Ka3))
     ELSE IF Ge(alpha_target, AlphaGuard3)
       THEN Ret("alpha_guard", Hydrolysis(nH3A_total, Vt_L, Ka3))
     ELSE RetLoop("bisection", sys, Ten)

_strongBaseTriprotic(nH3A, nOH, Vt_L, pKa1, pKa2, pKa3) ==
  _exactTriprotic(nH3A, nOH, Vt_L, Pow10(Neg(pKa1)), Pow10(Neg(pKa2)), Pow10(Neg(pKa3)))

\* calcPH with the guard on the total volume written Vt_L < 0.
calcPH_strictGuard(s) ==
  LET Vt_L == Div(Add(s.analyteVol, s.titrantVol), Thousand)
      nA == Mul(s.analyteConc, Div(s.analyteVol, Thousand))
      nT == Mul(s.titrantConc, Div(s.titrantVol, Thousand))
  IN IF Lt(Vt_L, Zero) THEN Ret("degenerate", Neutral)
     ELSE CASE s.type = "strong_base_strong_acid" -> _strongBaseStrongAcid(nA, nT, Vt_L)
            [] s.type = "strong_acid_strong_base" -> _strongAcidStrongBase(nA, nT, Vt_L)
            [] s.type = "strong_base_weak_acid" -> _strongBaseWeakAcid(nA, nT, Vt_L, s.pKa)
            [] s.type = "strong_acid_weak_base" -> _strongAcidWeakBase(nA, nT, Vt_L, s.pKb)
            [] s.type = "weak_acid_weak_base" ->
                 _weakAcidWeakBase(nA, nT, Vt_L, s.pKa, s.pKb)
            [] s.type = "strong_base_diprotic_acid" ->
                 _strongBaseDiprotic(nA, nT, Vt_L, s.pKa, s.pKa2)
            [] s.type = "strong_base_triprotic_acid" ->
                 _strongBaseTriprotic(nA, nT, Vt_L, s.pKa, s.pKa2, s.pKa3)
            [] OTHER -> Ret("default", Neutral)

\* calcPH with no default case in its switch: an unknown type returns undefined.
calcPH_noDefault(s) ==
  LET Vt_L == Div(Add(s.analyteVol, s.titrantVol), Thousand)
      nA == Mul(s.analyteConc, Div(s.analyteVol, Thousand))
      nT == Mul(s.titrantConc, Div(s.titrantVol, Thousand))
  IN IF Le(Vt_L, Zero) THEN Ret("degenerate", Neutral)
     ELSE CASE s.type = "strong_base_strong_acid" -> _strongBaseStrongAcid(nA, nT, Vt_L)
            [] s.type = "strong_acid_strong_base" -> _strongAcidStrongBase(nA, nT, Vt_L)
            [] s.type = "strong_base_weak_acid" -> _strongBaseWeakAcid(nA, nT, Vt_L, s.pKa)
            [] s.type = "strong_acid_weak_base" -> _strongAcidWeakBase(nA, nT, Vt_L, s.pKb)
            [] s.type = "weak_acid_weak_base" ->
                 _weakAcidWeakBase(nA, nT, Vt_L, s.pKa, s.pKb)
            [] s.type = "strong_base_diprotic_acid" ->
                 _strongBaseDiprotic(nA, nT, Vt_L, s.pKa, s.pKa2)
            [] s.type = "strong_base_triprotic_acid" ->
                 _strongBaseTriprotic(nA, nT, Vt_L, s.pKa, s.pKa2, s.pKa3)
            [] OTHER -> Ret("default", <<"undef", 0, 0>>)

\* calcPH keeping its last result on the object it is given, and returning it.
calcPH_memo(s) ==
  LET Vt_L == Div(Add(s.analyteVol, s.titrantVol), Thousand)
      nA == Mul(s.analyteConc, Div(s.analyteVol, Thousand))
      nT == Mul(s.titrantConc, Div(s.titrantVol, Thousand))
  IN IF s.targetPH # <<"undef", 0, 0>> THEN Ret("memo", s.targetPH)
     ELSE IF Le(Vt_L, Zero) THEN Ret("degenerate", Neutral)
     ELSE CASE s.type = "strong_base_strong_acid" -> _strongBaseStrongAcid(nA, nT, Vt_L)
            [] s.type = "strong_acid_strong_base" -> _strongAcidStrongBase(nA, nT, Vt_L)
            [] s.type = "strong_base_weak_acid" -> _strongBaseWeakAcid(nA, nT, Vt_L, s.pKa)
            [] s.type = "strong_acid_weak_base" -> _strongAcidWeakBase(nA, nT, Vt_L, s.pKb)
            [] s.type = "weak_acid_weak_base" ->
                 _weakAcidWeakBase(nA, nT, Vt_L, s.pKa, s.pKb)
            [] s.type = "strong_base_diprotic_acid" ->
                 _strongBaseDiprotic(nA, nT, Vt_L, s.pKa, s.pKa2)
            [] s.type = "strong_base_triprotic_acid" ->
                 _strongBaseTriprotic(nA, nT, Vt_L, s.pKa, s.pKa2, s.pKa3)
            [] OTHER -> Ret("default", Neutral)

\* calcPH of the exact implementation, on a state record s
calcPH(s) ==
  LET Vt_L == Div(Add(s.analyteVol, s.titrantVol), Thousand)
      nA == Mul(s.analyteConc, Div(s.analyteVol, Thousand))
      nT == Mul(s.titrantConc, Div(s.titrantVol, Thousand))
  IN IF Le(Vt_L, Zero) THEN Ret("degenerate", Neutral)
     ELSE CASE s.type = "strong_base_strong_acid" -> _strongBaseStrongAcid(nA, nT, Vt_L)
            [] s.type = "strong_acid_strong_base" -> _strongAcidStrongBase(nA, nT, Vt_L)
            [] s.type = "strong_base_weak_acid" -> _strongBaseWeakAcid(nA, nT, Vt_L, s.pKa)
            [] s.type = "strong_acid_weak_base" -> _strongAcidWeakBase(nA, nT, Vt_L, s.pKb)
            [] s.type = "weak_acid_weak_base" ->
                 _weakAcidWeakBase(nA, nT, Vt_L, s.pKa, s.pKb)
            [] s.type = "strong_base_diprotic_acid" ->
                 _strongBaseDiprotic(nA, nT, Vt_L, s.pKa, s.pKa2)
            [] s.type = "strong_base_triprotic_acid" ->
                 _strongBaseTriprotic(nA, nT, Vt_L, s.pKa, s.pKa2, s.pKa3)
            [] OTHER -> Ret("default", Neutral)

\* calcEquivalencePoints (the same code in both implementations)
\* toML without the conversion from litres to millilitres.
toML_litres(n, titrantConc) == Div(n, titrantConc)

toML(n, titrantConc) == Mul(Div(n, titrantConc), Thousand)

\* calcEquivalencePoints with the guard of its second line left out.
calcEquivalencePoints_noGuard(s) ==
  LET nA == Mul(s.analyteConc, Div(s.analyteVol, Thousand))
  IN IF s.type = "strong_base_diprotic_acid"
       THEN << [volume |-> toML(nA, s.titrantConc), label |-> "1st Eq"],
               [volume |-> toML(Mul(Two, nA), s.titrantConc), label |-> "2nd Eq"] >>
     ELSE IF s.type = "strong_base_triprotic_acid"
       THEN << [volume |-> toML(nA, s.titrantConc), label |-> "1st Eq"],
               [volume |-> toML(Mul(Two, nA), s.titrantConc), label |-> "2nd Eq"],
               [volume |-> toML(Mul(Three, nA), s.titrantConc), label |-> "3rd Eq"] >>
     ELSE << [volume |-> toML(nA, s.titrantConc), label |-> "Eq"] >>

calcEquivalencePoints(s) ==
  LET nA == Mul(s.analyteConc, Div(s.analyteVol, Thousand))
  IN IF Le(s.titrantConc, Zero) THEN <<>>
     ELSE IF s.type = "strong_base_diprotic_acid"
       THEN << [volume |-> toML(nA, s.titrantConc), label |-> "1st Eq"],
               [volume |-> toML(Mul(Two, nA), s.titrantConc), label |-> "2nd Eq"] >>
     ELSE IF s.type = "strong_base_triprotic_acid"
       THEN << [volume |-> toML(nA, s.titrantConc), label |-> "1st Eq"],
               [volume |-> toML(Mul(Two, nA), s.titrantConc), label |-> "2nd Eq"],
               [volume |-> toML(Mul(Three, nA), s.titrantConc), label |-> "3rd Eq"] >>
     ELSE << [volume |-> toML(nA, s.titrantConc), label |-> "Eq"] >>


(***************************************************************************)
(* The piecewise Henderson-Hasselbalch implementation (lines 1-316).       *)
(***************************************************************************)
_strongBaseStrongAcid_hh(nAcid, nBase, Vt_L) ==
  LET diff == Sub(nAcid, nBase)
  IN IF Le(Abs(diff), Tol) THEN Ret("neutral", Neutral)
     ELSE IF Gt(diff, Zero)
       THEN RetClamped("analyte_excess", Neg(Log10(Div(diff, Vt_L))))
       ELSE RetClamped("titrant_excess", Add(Fourteen, Log10(Div(Neg(diff), Vt_L))))

_strongAcidStrongBase_hh(nBase, nAcid, Vt_L) ==
  LET diff == Sub(nBase, nAcid)
  IN IF Le(Abs(diff), Tol) THEN Ret("neutral", Neutral)
     ELSE IF Gt(diff, Zero)
       THEN RetClamped("analyte_excess", Add(Fourteen, Log10(Div(diff, Vt_L))))
       ELSE RetClamped("titrant_excess", Neg(Log10(Div(Neg(diff), Vt_L))))

_strongBaseWeakAcid_hh(nHA, nOH, Vt_L, pKa) ==
  LET Ka == Pow10(Neg(pKa))
      delta == Mul(nHA, EQ_ZONE)
  IN IF Lt(nOH, EPS_hh)
       THEN LET C == Div(nHA, Vt_L)
                H == posQuadRoot(One, Ka, Mul(Neg(Ka), C))
            IN RetClamped("initial", Neg(Log10(H)))
     ELSE IF Lt(nOH, Sub(nHA, delta))
       THEN LET ratio == Div(nOH, Sub(nHA, nOH))
            IN RetClamped("buffer", Add(pKa, Log10(ratio)))
     ELSE IF Le(nOH, Add(nHA, delta))
       THEN LET C == Div(nHA, Vt_L)
                Kb == Div(Kw, Ka)
                OH == posQuadRoot(One, Kb, Mul(Neg(Kb), C))
            IN RetClamped("equivalence", Add(Fourteen, Log10(Max(OH, EPS_hh))))
     ELSE RetClamped("excess", Add(Fourteen, Log10(Div(Sub(nOH, nHA), Vt_L))))

_strongAcidWeakBase_hh(nBase, nAcid, Vt_L, pKb) ==
  LET Kb == Pow10(Neg(pKb))
      Ka == Div(Kw, Kb)
      delta == Mul(nBase, EQ_ZONE)
  IN IF Lt(nAcid, EPS_hh)
       THEN LET C == Div(nBase, Vt_L)
                OH == posQuadRoot(One, Kb, Mul(Neg(Kb), C))
            IN RetClamped("initial", Add(Fourteen, Log10(Max(OH, EPS_hh))))
     ELSE IF Lt(nAcid, Sub(nBase, delta))
       THEN LET ratio == Div(Sub(nBase, nAcid), nAcid)
                pOH == Add(pKb, Log10(ratio))
            IN RetClamped("buffer", Sub(Fourteen, pOH))
     ELSE IF Le(nAcid, Add(nBase, delta))
       THEN LET C == Div(nBase, Vt_L)
                H == posQuadRoot(One, Ka, Mul(Neg(Ka), C))
            IN RetClamped("equivalence", Neg(Log10(Max(H, EPS_hh))))
     ELSE RetClamped("excess", Neg(Log10(Div(Sub(nAcid, nBase), Vt_L))))

_weakAcidWeakBase_hh(nBase, nAcid, Vt_L, pKa, pKb) ==
  LET Kb == Pow10(Neg(pKb))
      delta == Mul(nBase, EQ_ZONE)
  IN IF Lt(nAcid, EPS_hh)
       THEN LET C == Div(nBase, Vt_L)
                OH == posQuadRoot(One, Kb, Mul(Neg(Kb), C))
            IN RetClamped("initial", Add(Fourteen, Log10(Max(OH, EPS_hh))))
     ELSE IF Lt(nAcid, Sub(nBase, delta))
       THEN LET ratio == Div(Sub(nBase, nAcid), nAcid)
            IN RetClamped("buffer", Sub(Fourteen, Add(pKb, Log10(ratio))))
     ELSE IF Le(nAcid, Add(nBase, delta))
       THEN RetClamped("equivalence", Add(Neutral, Mul(Half, Sub(pKa, pKb))))
     ELSE LET nHA_excess == Sub(nAcid, nBase)
              ratio == Div(nBase, nHA_excess)
          IN RetClamped("excess", Add(pKa, Log10(Max(ratio, EPS_hh))))

_strongBaseDiproticAcid_hh(nH2A, nOH, Vt_L, pKa1, pKa2) ==
  LET Ka1 == Pow10(Neg(pKa1))
      Ka2 == Pow10(Neg(pKa2))
      Veq1 == nH2A
      Veq2 == Mul(Two, nH2A)
      d1 == Mul(Veq1, EQ_ZONE)
      d2 == Mul(Veq2, EQ_ZONE)
      mid12 == clampPH(Div(Add(pKa1, pKa2), Two))
  IN IF Lt(nOH, EPS_hh)
       THEN LET C == Div(nH2A, Vt_L)
                H == posQuadRoot(One, Ka1, Mul(Neg(Ka1), C))
            IN RetClamped("initial", Neg(Log10(Max(H, EPS_hh))))
     ELSE IF Lt(nOH, Sub(Veq1, d1))
       THEN LET ratio == Div(nOH, Sub(nH2A, nOH))
            IN RetClamped("buffer1", Add(pKa1, Log10(ratio)))
     ELSE IF Le(nOH, Add(Veq1, d1))
       THEN Ret("eq1", mid12)
     ELSE IF Lt(nOH, Sub(Veq2, d2))
       THEN LET nA2 == Sub(nOH, Veq1)
                nHA == Sub(Veq1, nA2)
            IN IF Le(nHA, Zero) THEN Ret("buffer2_empty", mid12)
               ELSE RetClamped("buffer2", Add(pKa2, Log10(Div(nA2, nHA))))
     ELSE IF Le(nOH, Add(Veq2, d2))
       THEN LET C == Div(nH2A, Vt_L)
                Kb == Div(Kw, Ka2)
                OH == Sqrt(Mul(Kb, C))
            IN RetClamped("eq2", Add(Fourteen, Log10(Max(OH, EPS_hh))))
     ELSE RetClamped("excess", Add(Fourteen, Log10(Div(Sub(nOH, Veq2), Vt_L))))

_strongBaseTriproticAcid_hh(nH3A, nOH, Vt_L, pKa1, pKa2, pKa3) ==
  LET Ka3 == Pow10(Neg(pKa3))
      Veq1 == nH3A
      Veq2 == Mul(Two, nH3A)
      Veq3 == Mul(Three, nH3A)
      d1 == Mul(Veq1, EQ_ZONE)
      d2 == Mul(Veq2, EQ_ZONE)
      d3 == Mul(Veq3, EQ_ZONE)
      mid12 == clampPH(Div(Add(pKa1, pKa2), Two))
      mid23 == clampPH(Div(Add(pKa2, pKa3), Two))
  IN IF Lt(nOH, EPS_hh)
       THEN LET Ka1 == Pow10(Neg(pKa1))
                C == Div(nH3A, Vt_L)
                H == posQuadRoot(One, Ka1, Mul(Neg(Ka1), C))
            IN RetClamped("initial", Neg(Log10(Max(H, EPS_hh))))
     ELSE IF Lt(nOH, Sub(Veq1, d1))
       THEN LET ratio == Div(nOH, Sub(nH3A, nOH))
            IN RetClamped("buffer1", Add(pKa1, Log10(ratio)))
     ELSE IF Le(nOH, Add(Veq1, d1))
       THEN Ret("eq1", mid12)
     ELSE IF Lt(nOH, Sub(Veq2, d2))
       THEN LET nH2A == Sub(nOH, Veq1)
                nHA2 == Sub(Veq1, nH2A)
            IN IF Le(nHA2, Zero) THEN Ret("buffer2_empty", mid12)
               ELSE RetClamped("buffer2", Add(pKa2, Log10(Div(nH2A, nHA2))))
     ELSE IF Le(nOH, Add(Veq2, d2))
       THEN Ret("eq2", mid23)
     ELSE IF Lt(nOH, Sub(Veq3, d3))
       THEN LET nHA2c == Sub(Mul(Two, Veq2), nOH)
                nA3c == Sub(nOH, Veq2)
            IN IF Le(nHA2c, Zero) THEN Ret("buffer3_empty", mid23)
               ELSE RetClamped("buffer3", Add(pKa3, Log10(Div(nA3c, nHA2c))))
     ELSE IF Le(nOH, Add(Veq3, d3))
       THEN LET C == Div(nH3A, Vt_L)
                Kb == Div(Kw, Ka3)
                OH == Sqrt(Mul(Kb, C))
            IN RetClamped("eq3", Add(Fourteen, Log10(Max(OH, EPS_hh))))
     ELSE RetClamped("excess", Add(Fourteen, Log10(Div(Sub(nOH, Veq3), Vt_L))))

calcPH_hh(s) ==
  LET Vt_L == Div(Add(s.analyteVol, s.titrantVol), Thousand)
      nA == Mul(s.analyteConc, Div(s.analyteVol, Thousand))
      nT == Mul(s.titrantConc, Div(s.titrantVol, Thousand))
  IN IF Le(Vt_L, Zero) THEN Ret("degenerate", Neutral)
     ELSE CASE s.type = "strong_base_strong_acid" -> _strongBaseStrongAcid_hh(nA, nT, Vt_L)
            [] s.type = "strong_acid_strong_base" -> _strongAcidStrongBase_hh(nA, nT, Vt_L)
            [] s.type = "strong_base_weak_acid" ->
                 _strongBaseWeakAcid_hh(nA, nT, Vt_L, s.pKa)
            [] s.type = "strong_acid_weak_base" ->
                 _strongAcidWeakBase_hh(nA, nT, Vt_L, s.pKb)
            [] s.type = "weak_acid_weak_base" ->
                 _weakAcidWeakBase_hh(nA, nT, Vt_L, s.pKa, s.pKb)
            [] s.type = "strong_base_diprotic_acid" ->
                 _strongBaseDiproticAcid_hh(nA, nT, Vt_L, s.pKa, s.pKa2)
            [] s.type = "strong_base_triprotic_acid" ->
                 _strongBaseTriproticAcid_hh(nA, nT, Vt_L, s.pKa, s.pKa2, s.pKa3)
            [] OTHER -> Ret("default", Neutral)

(***************************************************************************)
(* The searches of ui.js over the points of the curve.                     *)
(***************************************************************************)
\* The curve object of ui.js as the script leaves it: no points, nothing
\* selected.  selectedIndex is <<>> for null and <<i>> for the index i.
Null == <<>>
NoCurve == [points |-> <<>>, selectedIndex |-> Null]

\* The index JavaScript calls i, in a sequence that starts at 1.
At(points, i) == points[i + 1]

\* The loop of _nearestIndexByX from index i on, best and bestD as they stand.
RECURSIVE NearestFrom(_, _, _, _, _)
NearestFrom(points, x, i, best, bestD) ==
  IF i >= Len(points) THEN best
  ELSE LET d == Abs(Sub(At(points, i).x, x))
       IN IF Lt(d, bestD) THEN NearestFrom(points, x, i + 1, i, d)
          ELSE NearestFrom(points, x, i + 1, best, bestD)

\* _nearestIndexByX returning the number of points for a click to the right
\* of the last point.
_nearestIndexByX_pastEnd(points, x) ==
  IF Len(points) = 0 THEN Null
  ELSE IF Gt(x, At(points, Len(points) - 1).x) THEN <<Len(points)>>
  ELSE <<NearestFrom(points, x, 1, 0, Abs(Sub(At(points, 0).x, x)))>>

_nearestIndexByX(points, x) ==
  IF Len(points) = 0 THEN Null
  ELSE <<NearestFrom(points, x, 1, 0, Abs(Sub(At(points, 0).x, x)))>>

\* The loop of detectEquivalencePoint from index i on, maxDeriv and eqIdx as
\* they stand.
RECURSIVE SteepestFrom(_, _, _, _)
SteepestFrom(points, i, maxDeriv, eqIdx) ==
  IF i >= Len(points) - 1 THEN eqIdx
  ELSE LET dy == Sub(At(points, i + 1).y, At(points, i - 1).y)
           dx == Sub(At(points, i + 1).x, At(points, i - 1).x)
           d == Abs(IF Gt(dx, Zero) THEN Div(dy, dx) ELSE Zero)
       IN IF Gt(d, maxDeriv) THEN SteepestFrom(points, i + 1, d, i)
          ELSE SteepestFrom(points, i + 1, maxDeriv, eqIdx)

(***************************************************************************)
(* The operations and functions Call evaluates.                            *)
(***************************************************************************)
Call(f, args) ==
  CASE f = "+" -> fAdd[args[1], args[2]]
    [] f = "*" -> fMul[args[1], args[2]]
    [] f = "/" -> fDiv[args[1], args[2]]
    [] f = "-" -> fSub[args[1], args[2]]
    [] f = "neg" -> fNeg[args[1]]
    [] f = "abs" -> fAbs[args[1]]
    [] f = "<" -> fLt[args[1], args[2]]
    [] f = "<=" -> fLe[args[1], args[2]]
    [] f = ">" -> fGt[args[1], args[2]]
    [] f = ">=" -> fGe[args[1], args[2]]
    [] f = "===" -> fEq[args[1], args[2]]
    [] f = "min" -> fMin[args[1], args[2]]
    [] f = "max" -> fMax[args[1], args[2]]
    [] f = "sqrt" -> fSqrt[args[1]]
    [] f = "log10" -> fLog10[args[1]]
    [] f = "pow10" -> fPow10[args[1]]
    [] f = "calcPH" -> calcPH(args[1])
    [] f = "calcPH_hh" -> calcPH_hh(args[1])
    [] f = "calcEquivalencePoints" -> calcEquivalencePoints(args[1])
    [] f = "loopBody" -> BisectStep(args[1], args[2])
    [] f = "_nearestIndexByX" -> _nearestIndexByX(args[1], args[2])
    [] f = "steepest" -> SteepestFrom(args[1], 1, Zero, 0)

(***************************************************************************)
(* The state machine.  impl says which of the two implementations of the   *)
(* file is loaded.  state is the TitrationState object of the host: its    *)
(* ten input fields, and the two fields updateReadouts (ui.js) writes on   *)
(* it.  pH, path and eqPoints hold what the latest calls of calcPH and     *)
(* calcEquivalencePoints returned, done says which of them have returned,  *)
(* additions counts the titrant additions of the host.  loop holds the     *)
(* variables lo and hi of a bisection loop that is followed pass by pass,  *)
(* pc the position of that call and the loop counter i, curve the curve    *)
(* object of ui.js.                                                        *)
(***************************************************************************)
VARIABLES impl, state, pH, path, eqPoints, done, additions, loop, pc, curve

vars == <<impl, state, pH, path, eqPoints, done, additions, loop, pc, curve>>

MaxAdditions == 4

Impls == {"hh", "exact"}
Types == {"strong_base_strong_acid", "strong_acid_strong_base", "strong_base_weak_acid",
          "strong_acid_weak_base", "weak_acid_weak_base", "strong_base_diprotic_acid",
          "strong_base_triprotic_acid"}
UnknownType == "unknown_type"
InputFields == {"type", "analyteConc", "analyteVol", "titrantConc", "titrantVol",
                "titrantMax", "pKa", "pKb", "pKa2", "pKa3"}

\* A field no call has written yet (undefined in JavaScript).
Undefined == <<"undef", 0, 0>>

\* No bisection loop has been entered.
NoLoop == [sys |-> [loop |-> "none"], lo |-> Zero, hi |-> Zero,
           hi0 |-> Zero, path |-> "none", ret |-> Undefined]

\* 0.1 M x 25 mL in the flask, 0.1 M in the burette, the phosphate-like pK values.
BaseState ==
  [type |-> "strong_base_strong_acid",
   analyteConc |-> Lit(1, -1), analyteVol |-> FromInt(25),
   titrantConc |-> Lit(1, -1), titrantVol |-> Zero, titrantMax |-> FromInt(50),
   pKa |-> Lit(474, -2), pKb |-> Lit(474, -2), pKa2 |-> Lit(72, -1), pKa3 |-> Lit(1235, -2),
   targetPH |-> Undefined, equivalencePoints |-> <<>>]

\* The implementation in effect.
Solve(i, s) == Call(IF i = "hh" THEN "calcPH_hh" ELSE "calcPH", <<s>>)

\* calcEquivalencePoints(s), the same code in both implementations.
EqPoints(s) == Call("calcEquivalencePoints", <<s>>)

\* A direct call of calcPH on the current state.
CalcPH ==
  LET r == Solve(impl, state)
  IN /\ pH' = r.pH
     /\ path' = r.path
     /\ done' = done \cup {"pH"}
     /\ UNCHANGED <<impl, state, eqPoints, additions, loop, pc, curve>>

\* calcEquivalencePoints converting state.analyteVol to litres in place.
CalcEquivalencePoints_inPlace ==
  /\ eqPoints' = EqPoints(state)
  /\ state' = [state EXCEPT !.analyteVol = Div(@, Thousand)]
  /\ done' = done \cup {"eq"}
  /\ UNCHANGED <<impl, pH, path, additions, loop, pc, curve>>

\* A direct call of calcEquivalencePoints on the current state.
CalcEquivalencePoints ==
  /\ eqPoints' = EqPoints(state)
  /\ done' = done \cup {"eq"}
  /\ UNCHANGED <<impl, state, pH, path, additions, loop, pc, curve>>

\* updateReadouts without its call of _updateEquivalenceUI.
updateReadouts_noMarkers(s, r) == [s EXCEPT !.targetPH = r.pH]

\* updateReadouts(state) of ui.js on the state s: the state it leaves.
\* r is what its call of calcPH returned.
updateReadouts(s, r) ==
  [s EXCEPT !.targetPH = r.pH,
            !.equivalencePoints = EqPoints([s EXCEPT !.targetPH = r.pH])]

UpdateReadouts ==
  LET r == Solve(impl, state)
  IN /\ state' = updateReadouts(state, r)
     /\ pH' = r.pH
     /\ path' = r.path
     /\ eqPoints' = state'.equivalencePoints
     /\ done' = {"pH", "eq"}
     /\ UNCHANGED <<impl, additions, loop, pc, curve>>

\* The drop sizes of the host: one drop (0.05 mL) and a half-equivalence portion.
DropSizes == {Lit(5, -2), Lit(125, -1)}

\* The host adds dv mL of titrant, then refreshes the readouts.
AddTitrant(dv) ==
  /\ additions < MaxAdditions
  /\ Le(Add(state.titrantVol, dv), state.titrantMax)
  /\ LET r == Solve(impl, [state EXCEPT !.titrantVol = Add(@, dv)])
     IN /\ state' = updateReadouts([state EXCEPT !.titrantVol = Add(@, dv)], r)
        /\ pH' = r.pH
        /\ path' = r.path
        /\ eqPoints' = state'.equivalencePoints
        /\ done' = {"pH", "eq"}
  /\ additions' = additions + 1
  /\ UNCHANGED <<impl, loop, pc, curve>>

SweepStarts == {[BaseState EXCEPT !.type = t] : t \in Types}

Init ==
  /\ impl \in Impls
  /\ state \in SweepStarts
  /\ pH = Undefined
  /\ path = "none"
  /\ eqPoints = <<>>
  /\ done = {}
  /\ additions = 0
  /\ loop = NoLoop
  /\ pc = [at |-> "exited", i |-> 0]
  /\ curve = NoCurve

Next ==
  \/ CalcPH
  \/ CalcEquivalencePoints
  \/ UpdateReadouts
  \/ \E dv \in DropSizes : AddTitrant(dv)

Spec == Init /\ [][Next]_vars

\* The solver applied to a grid of inputs, the pathological ones included.
ConcGrid == {Zero, Lit(1, -1)}
AnalyteVolGrid == {Zero, FromInt(25)}
TitrantVolGrid == {Zero, Lit(5, -2), Lit(125, -1), Lit(249, -1), FromInt(25), Lit(2502, -2),
                   Lit(375, -1), FromInt(50), FromInt(75), FromInt(80)}

\* Strong/strong inputs at and around the 1e-10 mol tolerance.
EdgeGrid ==
  {[BaseState EXCEPT !.type = t, !.analyteConc = ac, !.analyteVol = Thousand] :
     t \in {"strong_base_strong_acid", "strong_acid_strong_base"},
     ac \in {Lit(1, -10), Lit(5, -11), Lit(2, -10)}}

InputGrid ==
  {[BaseState EXCEPT !.type = t, !.analyteConc = ac, !.analyteVol = av,
                     !.titrantConc = tc, !.titrantVol = tv] :
     t \in Types \cup {UnknownType}, ac \in ConcGrid, av \in AnalyteVolGrid,
     tc \in ConcGrid, tv \in TitrantVolGrid} \cup EdgeGrid

InitInputs ==
  /\ impl \in Impls
  /\ state \in InputGrid
  /\ pH = Undefined
  /\ path = "none"
  /\ eqPoints = <<>>
  /\ done = {}
  /\ additions = 0
  /\ loop = NoLoop
  /\ pc = [at |-> "exited", i |-> 0]
  /\ curve = NoCurve

NextInputs ==
  \/ CalcPH
  \/ CalcEquivalencePoints

SpecInputs == InitInputs /\ [][NextInputs]_vars

(***************************************************************************)
(* The contract of the solver, on the grid of inputs (SpecInputs).         *)
(***************************************************************************)
InRange(v) == IsFin(v) /\ Ge(v, Zero) /\ Le(v, Fourteen)
LiteralPaths == {"degenerate", "default", "neutral"}
TotalVolume(s) == Add(s.analyteVol, s.titrantVol)

\* C1: whatever the input, the value calcPH has returned is a number v with
\* 0 <= v <= 14, and on the three paths that return the literal it is 7.00.
ClampLaw ==
  "pH" \in done => InRange(pH) /\ (path \in LiteralPaths => pH = Neutral)

\* A pathological input (nothing dissolved in the flask) on which a regime
\* formula was evaluated and clampPH cut its value to an end of the range.
ClampLawWitness ==
  /\ "pH" \in done
  /\ path \notin LiteralPaths
  /\ state.analyteConc = Zero
  /\ pH \in {Zero, Fourteen}

\* C2: when analyteVol + titrantVol <= 0, calcPH has returned 7.00 from its
\* second line, whatever the type: no regime formula was evaluated.
DegenerateVolume ==
  "pH" \in done /\ Le(TotalVolume(state), Zero) => pH = Neutral /\ path = "degenerate"

\* A weak-acid titration with positive concentrations and no volume at all.
DegenerateVolumeWitness ==
  /\ "pH" \in done
  /\ Le(TotalVolume(state), Zero)
  /\ state.type = "strong_base_weak_acid"
  /\ Gt(state.analyteConc, Zero)
  /\ Gt(state.titrantConc, Zero)

\* C3: when analyteVol + titrantVol > 0 and the type is none of the seven,
\* calcPH has returned 7.00, from the default case of its switch.
InvalidType ==
  "pH" \in done /\ Gt(TotalVolume(state), Zero) /\ state.type \notin Types
    => pH = Neutral /\ path = "default"

InvalidTypeWitness ==
  /\ "pH" \in done
  /\ Gt(TotalVolume(state), Zero)
  /\ state.type = UnknownType
  /\ Gt(state.titrantVol, Zero)

\* The number of equivalence points of a titration type.
PointCount(type) ==
  IF type = "strong_base_diprotic_acid" THEN 2
  ELSE IF type = "strong_base_triprotic_acid" THEN 3 ELSE 1

\* i * nA / titrantConc * 1000 with nA = analyteConc * analyteVol / 1000
PointVolume(s, i) ==
  Mul(Div(Mul(FromInt(i), Mul(s.analyteConc, Div(s.analyteVol, Thousand))),
          s.titrantConc), Thousand)

\* C4: with titrantConc > 0, calcEquivalencePoints has returned 2 points for
\* the diprotic type, 3 for the triprotic type and 1 for every other type;
\* the i-th is at i * nA / titrantConc * 1000 mL, and the volumes do not
\* decrease with i (they increase when nA > 0).
EquivalencePointVolumes ==
  "eq" \in done /\ Gt(state.titrantConc, Zero) =>
    /\ Len(eqPoints) = PointCount(state.type)
    /\ \A i \in 1..Len(eqPoints) : eqPoints[i].volume = PointVolume(state, i)
    /\ \A i \in 1..Len(eqPoints) : \A j \in 1..Len(eqPoints) :
         i < j => /\ Le(eqPoints[i].volume, eqPoints[j].volume)
                  /\ Gt(Mul(state.analyteConc, state.analyteVol), Zero)
                       => Lt(eqPoints[i].volume, eqPoints[j].volume)

\* The three points of the triprotic acid, at 25, 50 and 75 mL.
EquivalencePointVolumesWitness ==
  /\ "eq" \in done
  /\ state.type = "strong_base_triprotic_acid"
  /\ Len(eqPoints) = 3
  /\ eqPoints[1].volume = FromInt(25)
  /\ eqPoints[3].volume = FromInt(75)

\* C5: with titrantConc <= 0, calcEquivalencePoints has returned the empty
\* sequence; a point is returned only for a positive titrantConc.
NoPointsWithoutTitrant ==
  "eq" \in done =>
    /\ Le(state.titrantConc, Zero) => eqPoints = <<>>
    /\ eqPoints # <<>> => Gt(state.titrantConc, Zero)

NoPointsWithoutTitrantWitness ==
  /\ "eq" \in done
  /\ state.titrantConc = Zero
  /\ Gt(state.analyteConc, Zero)
  /\ Gt(state.analyteVol, Zero)
  /\ eqPoints = <<>>

StrongStrong == {"strong_base_strong_acid", "strong_acid_strong_base"}

\* nA - nT, as calcPH computes the two amounts
Excess(s) ==
  Sub(Mul(s.analyteConc, Div(s.analyteVol, Thousand)),
      Mul(s.titrantConc, Div(s.titrantVol, Thousand)))

\* The closed form of the species in excess: -log10 of its concentration when
\* it is the acid, 14 + log10 of it when it is the base, clamped.
ClosedForm(s) ==
  LET c == Div(Abs(Excess(s)), Div(TotalVolume(s), Thousand))
  IN IF (s.type = "strong_base_strong_acid") = Gt(Excess(s), Zero)
       THEN clampPH(Neg(Log10(c)))
       ELSE clampPH(Add(Fourteen, Log10(c)))

\* |nA - nT| counts as within the tolerance: below 1e-10 in the exact
\* implementation, below or equal to it in the Henderson-Hasselbalch one.
WithinTolerance(i, s) ==
  IF i = "hh" THEN Le(Abs(Excess(s)), Tol) ELSE Lt(Abs(Excess(s)), Tol)

\* C8, as amended: for the two strong/strong types with a positive total
\* volume, calcPH has returned 7.00 when |nA - nT| is within the tolerance of
\* the implementation, and the closed form of the excess species otherwise.
StrongStrongExactness ==
  "pH" \in done /\ state.type \in StrongStrong /\ Gt(TotalVolume(state), Zero) =>
    IF WithinTolerance(impl, state) THEN pH = Neutral ELSE pH = ClosedForm(state)

\* |nA - nT| is exactly 1e-10 mol and the Henderson-Hasselbalch
\* implementation has returned 7.00.
StrongStrongExactnessWitness ==
  /\ "pH" \in done
  /\ impl = "hh"
  /\ state.type \in StrongStrong
  /\ Abs(Excess(state)) = Tol
  /\ pH = Neutral

\* C8, as stated: 7.00 when |nA - nT| is below 1e-10, the closed form of the
\* excess species whenever it is not below.
StrongStrongBelowTolerance ==
  "pH" \in done /\ state.type \in StrongStrong /\ Gt(TotalVolume(state), Zero) =>
    IF Lt(Abs(Excess(state)), Tol) THEN pH = Neutral ELSE pH = ClosedForm(state)

\* The state with the other strong/strong type and the same numeric fields.
Mirror(s) ==
  [s EXCEPT !.type = IF @ = "strong_base_strong_acid"
                       THEN "strong_acid_strong_base" ELSE "strong_base_strong_acid"]

\* C9: with a positive total volume, the values calcPH returns for the two
\* strong/strong types on the same numeric fields sum to 14.
StrongStrongSymmetry ==
  "pH" \in done /\ state.type \in StrongStrong /\ Gt(TotalVolume(state), Zero) =>
    Add(pH, Solve(impl, Mirror(state)).pH) = Fourteen

\* Past the equivalence point of a base-into-acid titration: a basic pH whose
\* mirror image is acidic.
StrongStrongSymmetryWitness ==
  /\ "pH" \in done
  /\ state.type = "strong_base_strong_acid"
  /\ path = "titrant_excess"
  /\ Gt(pH, Neutral)
  /\ Lt(pH, Fourteen)
  /\ Lt(Solve(impl, Mirror(state)).pH, Neutral)

(***************************************************************************)
(* The solver as a function of its input, along the runs of the host       *)
(* (Spec).                                                                 *)
(***************************************************************************)
\* C6: no call of calcPH or calcEquivalencePoints, direct or made by
\* updateReadouts, changes any of the ten input fields of the state: a field
\* changes only when the host adds titrant, and then it is titrantVol.
InputNotModified ==
  [][\A f \in InputFields :
       state'[f] # state[f] => f = "titrantVol" /\ additions' = additions + 1]_vars

\* Both functions were called directly and the state is as it started.
InputNotModifiedWitness ==
  /\ done = {"pH", "eq"}
  /\ additions = 0
  /\ state \in SweepStarts
  /\ pH # Undefined
  /\ eqPoints # <<>>

\* The state object as the solver first saw it: nothing written on it yet.
Fresh(s) == [s EXCEPT !.targetPH = Undefined, !.equivalencePoints = <<>>]

\* C7: what calcPH and calcEquivalencePoints have returned is what they return
\* for the ten input fields alone, whatever calls were made before and
\* whatever those calls left on the state object.
HistoryIndependence ==
  /\ "pH" \in done => pH = Solve(impl, Fresh(state)).pH
  /\ "eq" \in done => eqPoints = EqPoints(Fresh(state))

\* Calls were made at several titrant volumes; their results are on the object.
HistoryIndependenceWitness ==
  /\ done = {"pH", "eq"}
  /\ additions >= 2
  /\ state.targetPH # Undefined
  /\ state.equivalencePoints # <<>>

BaseIntoAcid == {"strong_base_strong_acid", "strong_base_weak_acid",
                 "strong_base_diprotic_acid", "strong_base_triprotic_acid"}

\* C10: along the titrant additions of a sweep, each addition leaves the pH
\* calcPH returns no lower than before for the base-into-acid types, and no
\* higher than before for the acid-into-base types.
MonotoneUnderAddition ==
  [][additions' = additions + 1 /\ "pH" \in done =>
       IF state.type \in BaseIntoAcid THEN Ge(pH', pH) ELSE Le(pH', pH)]_vars

(***************************************************************************)
(* The regimes of the weak and polyprotic solvers, on inputs placed at     *)
(* and around their boundaries (SpecRegimes).                              *)
(***************************************************************************)
\* pKa of a strong-ish acid, of acetic acid, of the ammonium ion.
PKGrid == {Lit(215, -2), Lit(474, -2), Lit(925, -2)}

\* Titrant volumes around the equivalence volume (25 mL) of the base state:
\* nT/nA = 0, 0.002, 0.5, 0.99, 0.996, 1, 1.0008, 1.004, 1.01, 1.5.
BandVolGrid == {Zero, Lit(5, -2), Lit(125, -1), Lit(2475, -2), Lit(249, -1), FromInt(25),
                Lit(2502, -2), Lit(251, -1), Lit(2525, -2), Lit(375, -1)}

WeakTypes == {"strong_base_weak_acid", "strong_acid_weak_base", "weak_acid_weak_base"}

WeakGrid ==
  {[BaseState EXCEPT !.type = t, !.pKa = pk, !.pKb = pkb, !.titrantVol = tv] :
     t \in WeakTypes, pk \in PKGrid, pkb \in {Lit(474, -2), Lit(925, -2)},
     tv \in BandVolGrid}

\* Amounts below the EPS of either implementation: 1e-14 M in flask and burette.
TraceGrid ==
  {[BaseState EXCEPT !.type = t, !.analyteConc = Lit(1, -14),
                     !.titrantConc = Lit(1, -14), !.titrantVol = tv] :
     t \in Types \ StrongStrong,
     tv \in {Zero, Lit(125, -1), FromInt(25), FromInt(50), FromInt(80)}}

PolyTypes == {"strong_base_diprotic_acid", "strong_base_triprotic_acid"}

\* <<pKa1, pKa2>>: the pair of the specification's two-step scenario, and that
\* of the base state.
PKPairs == {<<FromInt(2), FromInt(7)>>, <<Lit(474, -2), Lit(72, -1)>>}

\* Titrant volumes from nothing delivered to past the third equivalence
\* (25, 50 and 75 mL for the base state), with and without titrant strength.
PolyVolGrid == {Zero, Lit(5, -2), Lit(125, -1), FromInt(25), Lit(375, -1), Lit(4995, -2),
                FromInt(50), Lit(625, -1), FromInt(75), FromInt(80)}

PolyGrid ==
  {[BaseState EXCEPT !.type = t, !.pKa = pk[1], !.pKa2 = pk[2],
                     !.titrantConc = tc, !.titrantVol = tv] :
     t \in PolyTypes, pk \in PKPairs, tc \in {Zero, Lit(1, -1)},
     tv \in PolyVolGrid}

RegimeGrid == WeakGrid \cup TraceGrid \cup PolyGrid

InitRegimes ==
  /\ impl \in Impls
  /\ state \in RegimeGrid
  /\ pH = Undefined
  /\ path = "none"
  /\ eqPoints = <<>>
  /\ done = {}
  /\ additions = 0
  /\ loop = NoLoop
  /\ pc = [at |-> "exited", i |-> 0]
  /\ curve = NoCurve

NextRegimes ==
  \/ CalcPH
  \/ CalcEquivalencePoints

SpecRegimes == InitRegimes /\ [][NextRegimes]_vars

\* The two amounts as calcPH computes them.
MolesAnalyte(s) == Mul(s.analyteConc, Div(s.analyteVol, Thousand))
MolesTitrant(s) == Mul(s.titrantConc, Div(s.titrantVol, Thousand))

\* |x - y| <= d
Near(x, y, d) == IsFin(x) /\ IsFin(y) /\ Le(Abs(Sub(x, y)), d)

\* The delivered base is exactly half the weak acid in the flask.
HalfEquivalence(s) ==
  /\ s.type = "strong_base_weak_acid"
  /\ Gt(TotalVolume(s), Zero)
  /\ Gt(MolesAnalyte(s), Zero)
  /\ Mul(Two, MolesTitrant(s)) = MolesAnalyte(s)

\* Ka and Kb = Kw/Ka are both at most 1% of the analyte concentration nA/Vt.
ModerateRegime(s) ==
  LET C == Div(MolesAnalyte(s), Div(TotalVolume(s), Thousand))
      Ka == Pow10(Neg(s.pKa))
  IN /\ Le(Mul(FromInt(100), Ka), C)
     /\ Le(Mul(FromInt(100), Div(Kw, Ka)), C)

\* The first guard of the implementation lets the delivered amount through:
\* nOH < EPS (1e-12) is the pure-acid case of the Henderson-Hasselbalch
\* implementation, nOH <= 0 that of the exact one.
Delivered(i, s) ==
  IF i = "hh" THEN Ge(MolesTitrant(s), EPS_hh) ELSE Gt(MolesTitrant(s), Zero)

\* C11, as amended: at half-equivalence of a weak acid (nT = nA/2, with nT
\* at least 1e-12 mol in the Henderson-Hasselbalch implementation) calcPH has
\* taken the buffer branch; the pH it returned is pKa within 0.05 in the
\* Henderson-Hasselbalch implementation, and in the exact one when Ka and
\* Kw/Ka are both at most 1% of the analyte concentration nA/Vt.
HalfEquivalenceBuffer ==
  "pH" \in done /\ HalfEquivalence(state) /\ Delivered(impl, state) =>
    /\ path = "buffer"
    /\ impl = "hh" \/ ModerateRegime(state) => Near(pH, state.pKa, Lit(5, -2))

\* The exact implementation at 12.50 mL of the acetic-acid titration: the
\* bisection has returned a value that is not pKa itself, and within 0.05 of it.
HalfEquivalenceBufferWitness ==
  /\ "pH" \in done
  /\ impl = "exact"
  /\ HalfEquivalence(state)
  /\ ModerateRegime(state)
  /\ state.pKa = Lit(474, -2)
  /\ path = "buffer"
  /\ pH # state.pKa
  /\ Near(pH, state.pKa, Lit(5, -2))

\* C11, as stated: at half-equivalence of a weak acid with nA > 0 calcPH has
\* taken the buffer branch and returned pKa within 0.05.
HalfEquivalenceAtPKa ==
  "pH" \in done /\ HalfEquivalence(state) =>
    path = "buffer" /\ Near(pH, state.pKa, Lit(5, -2))

\* The hydrolysis value of the last conjugate base, 14 + log10(sqrt(Kb * C))
\* with Kb = Kw/KaLast and C = nA/Vt, floored at the EPS of the implementation
\* and clamped as the code floors and clamps it.
HydrolysisValue(i, s, pKaLast) ==
  LET C == Div(MolesAnalyte(s), Div(TotalVolume(s), Thousand))
      Kb == Div(Kw, Pow10(Neg(pKaLast)))
  IN clampPH(Add(Fourteen, Log10(Max(Sqrt(Mul(Kb, C)), IF i = "hh" THEN EPS_hh ELSE EPS))))

AtFirstEquivalence(s) == MolesTitrant(s) = MolesAnalyte(s)
AtSecondEquivalence(s) == MolesTitrant(s) = Mul(Two, MolesAnalyte(s))

\* C12, as amended: for a diprotic acid of at least 1e-12 mol, calcPH at
\* nT = nA has returned a value within 0.3 of (pKa1 + pKa2)/2, and at
\* nT = 2*nA a value within 0.3 of the hydrolysis value of A2-,
\* 14 + log10(sqrt((Kw/Ka2) * nA/Vt)), each clamped to [0, 14].
DiproticTwoStep ==
  "pH" \in done /\ state.type = "strong_base_diprotic_acid"
    /\ Gt(TotalVolume(state), Zero) /\ Ge(MolesAnalyte(state), EPS_hh) =>
    /\ AtFirstEquivalence(state) =>
         Near(pH, clampPH(Div(Add(state.pKa, state.pKa2), Two)), Lit(3, -1))
    /\ AtSecondEquivalence(state) =>
         Near(pH, HydrolysisValue(impl, state, state.pKa2), Lit(3, -1))

\* The exact implementation at the first equivalence volume of the scenario
\* pKa1 = 2, pKa2 = 7: the bisection has returned a value near 4.5.
DiproticTwoStepWitness ==
  /\ "pH" \in done
  /\ impl = "exact"
  /\ state.type = "strong_base_diprotic_acid"
  /\ state.pKa = FromInt(2)
  /\ AtFirstEquivalence(state)
  /\ Gt(MolesAnalyte(state), EPS_hh)
  /\ path = "bisection"
  /\ Near(pH, Lit(45, -1), Lit(3, -1))

\* C12, as stated: for a diprotic acid with nA > 0, calcPH at nT = nA has
\* returned a value within 0.3 of (pKa1 + pKa2)/2, and at nT = 2*nA a value
\* within 0.3 of 14 + log10(sqrt((Kw/Ka2) * nA/Vt)).
DiproticTwoStepAnyAmount ==
  "pH" \in done /\ state.type = "strong_base_diprotic_acid"
    /\ Gt(TotalVolume(state), Zero) /\ Gt(MolesAnalyte(state), Zero) =>
    /\ AtFirstEquivalence(state) =>
         Near(pH, Div(Add(state.pKa, state.pKa2), Two), Lit(3, -1))
    /\ AtSecondEquivalence(state) =>
         Near(pH, Add(Fourteen, Log10(Sqrt(Mul(Div(Kw, Pow10(Neg(state.pKa2))),
                Div(MolesAnalyte(state), Div(TotalVolume(state), Thousand)))))),
              Lit(3, -1))

StrongWeak == {"strong_base_weak_acid", "strong_acid_weak_base"}

\* The regime of a strong/weak titration with nT > 0, the band being that of
\* the implementation: nA -+ 0.005*nA, after a first guard nT < 1e-12, in
\* the Henderson-Hasselbalch one; from nA up to 1.001*nA in the exact one.
RegimeOf(i, s) ==
  LET nA == MolesAnalyte(s)
      nT == MolesTitrant(s)
      delta == Mul(nA, Lit(5, -3))
  IN IF i = "hh"
       THEN IF Lt(nT, Lit(1, -12)) THEN "initial"
            ELSE IF Lt(nT, Sub(nA, delta)) THEN "buffer"
            ELSE IF Le(nT, Add(nA, delta)) THEN "equivalence"
            ELSE "excess"
       ELSE IF Lt(nT, nA) THEN "buffer"
            ELSE IF Lt(nT, Mul(nA, Lit(1001, -3))) THEN "equivalence"
            ELSE "excess"

\* C13, as amended: for the two strong/weak types with nA > 0 and nT > 0,
\* the Henderson-Hasselbalch implementation (once nT has reached 1e-12 mol)
\* has used the hydrolysis formula exactly when nA - 0.005*nA <= nT <=
\* nA + 0.005*nA, the buffer formula exactly below that band and the excess
\* closed form exactly above it; the exact implementation has used the
\* hydrolysis formula exactly when nA <= nT < 1.001*nA, the charge-balance
\* bisection exactly when nT < nA and the excess closed form exactly when
\* nT >= 1.001*nA.
StrongWeakRegimes ==
  "pH" \in done /\ state.type \in StrongWeak /\ Gt(TotalVolume(state), Zero)
    /\ Gt(MolesAnalyte(state), Zero) /\ Gt(MolesTitrant(state), Zero) =>
    path = RegimeOf(impl, state)

\* The exact implementation 0.4% short of equivalence (24.9 of 25 mL) of a
\* weak base: the buffer bisection, where the other implementation is already
\* in its band.
StrongWeakRegimesWitness ==
  /\ "pH" \in done
  /\ impl = "exact"
  /\ state.type = "strong_acid_weak_base"
  /\ state.titrantVol = Lit(249, -1)
  /\ Gt(MolesTitrant(state), Mul(MolesAnalyte(state), Lit(995, -3)))
  /\ Lt(MolesTitrant(state), MolesAnalyte(state))
  /\ path = "buffer"
  /\ RegimeOf("hh", state) = "equivalence"

\* C13, as stated: for the two strong/weak types with nA > 0 and nT > 0, the
\* hydrolysis formula has been used exactly when nA*(1 - 0.005) <= nT <=
\* nA*(1 + 0.005), the buffer treatment exactly when nT is below that band,
\* the excess closed form exactly when nT is above it.
StrongWeakHalfPercentBand ==
  "pH" \in done /\ state.type \in StrongWeak /\ Gt(TotalVolume(state), Zero)
    /\ Gt(MolesAnalyte(state), Zero) /\ Gt(MolesTitrant(state), Zero) =>
    LET lower == Mul(MolesAnalyte(state), Sub(One, Lit(5, -3)))
        upper == Mul(MolesAnalyte(state), Add(One, Lit(5, -3)))
        nT == MolesTitrant(state)
    IN /\ path = "equivalence" <=> Ge(nT, lower) /\ Le(nT, upper)
       /\ path = "buffer" <=> Lt(nT, lower)
       /\ path = "excess" <=> Gt(nT, upper)

\* |nAcid - nBase| <= 0.005 * nBase
InWeakWeakBand(s) ==
  Le(Abs(Sub(MolesTitrant(s), MolesAnalyte(s))), Mul(Lit(5, -3), MolesAnalyte(s)))

\* 7 + 0.5 * (pKa - pKb), clamped
RelativeStrength(s) == clampPH(Add(FromInt(7), Mul(Lit(5, -1), Sub(s.pKa, s.pKb))))

PastWeakWeakBand(s) == Gt(MolesTitrant(s), Mul(MolesAnalyte(s), Add(One, Lit(5, -3))))

\* The pKb values a second state, equal in every other field, may have.
OtherPKb == {Lit(215, -2), Lit(474, -2), Lit(925, -2), FromInt(12)}

PolyproticLowerBoundary ==
  "pH" \in done /\ state.type \in PolyTypes /\ Gt(TotalVolume(state), Zero)
    /\ Gt(MolesAnalyte(state), Zero) /\ Le(MolesTitrant(state), Zero) =>
    path = "initial"

(***************************************************************************)
(* The exact polyprotic solver: its boundaries, its speciation and its     *)
(* target degree of deprotonation.                                         *)
(***************************************************************************)
\* n*nA: the amount of base that takes every proton of the acid.
FullNeutralisation(s) ==
  Mul(IF s.type = "strong_base_diprotic_acid" THEN Two ELSE Three, MolesAnalyte(s))

\* pKa of the last dissociation.
LastPKa(s) == IF s.type = "strong_base_diprotic_acid" THEN s.pKa2 ELSE s.pKa3

\* 14 + log10((nOH - n*nA)/Vt), clamped.
ExcessBaseValue(s) ==
  clampPH(Add(Fourteen, Log10(Div(Sub(MolesTitrant(s), FullNeutralisation(s)),
                                  Div(TotalVolume(s), Thousand)))))

ExactPolyprotic ==
  "pH" \in done /\ impl = "exact" /\ state.type \in PolyTypes /\ Gt(TotalVolume(state), Zero)

SpeciesOf(s) ==
  IF s.type = "strong_base_diprotic_acid"
    THEN Species2(MolesAnalyte(s), MolesTitrant(s))
    ELSE Species3(MolesAnalyte(s), MolesTitrant(s))
TotalOf(s) ==
  IF s.type = "strong_base_diprotic_acid" THEN total2(SpeciesOf(s)) ELSE total3(SpeciesOf(s))
AlphaTargetOf(s) ==
  IF s.type = "strong_base_diprotic_acid"
    THEN alpha_target2(SpeciesOf(s)) ELSE alpha_target3(SpeciesOf(s))

\* x = y up to the rounding of the arithmetic: |x - y| <= 1e-6 * y
SameAmount(x, y) == IsFin(x) /\ IsFin(y) /\ Le(Abs(Sub(x, y)), Mul(Lit(1, -6), y))

\* The indices of the non-zero species.
NonZero(r) == {i \in 1..Len(r) : r[i] # Zero}

\* C18: in the exact polyprotic solver, for every nOH with 0 <= nOH < n*nA,
\* the species amounts n_0..n_n are all non-negative, at most two of them are
\* non-zero, and then two adjacent ones, and their sum total is the analyte
\* amount nA.
SpeciationConservesMass ==
  ExactPolyprotic /\ Ge(MolesTitrant(state), Zero)
    /\ Lt(MolesTitrant(state), FullNeutralisation(state)) =>
    LET r == SpeciesOf(state)
    IN /\ \A i \in 1..Len(r) : Ge(r[i], Zero)
       /\ Cardinality(NonZero(r)) <= 2
       /\ \A i, j \in NonZero(r) : i - j <= 1
       /\ SameAmount(TotalOf(state), MolesAnalyte(state))

\* 0 < nOH < n*nA
Interior(s) == Gt(MolesTitrant(s), Zero) /\ Lt(MolesTitrant(s), FullNeutralisation(s))

\* C19: in the exact polyprotic solver, for every nOH with 0 < nOH < n*nA,
\* alpha_target is nOH/nA; it is k at the k-th equivalence (nOH = k*nA), and
\* it is larger at every larger nOH of the interval.
AlphaTargetIsBasePerAcid ==
  ExactPolyprotic /\ Gt(MolesAnalyte(state), Zero) /\ Interior(state) =>
    /\ SameAmount(AlphaTargetOf(state), Div(MolesTitrant(state), MolesAnalyte(state)))
    /\ \A k \in 1..2 : MolesTitrant(state) = Mul(FromInt(k), MolesAnalyte(state)) =>
         AlphaTargetOf(state) = FromInt(k)
    /\ \A tv \in PolyVolGrid :
         LET later == [state EXCEPT !.titrantVol = tv]
         IN Interior(later) /\ Gt(MolesTitrant(later), MolesTitrant(state)) =>
              Gt(AlphaTargetOf(later), AlphaTargetOf(state))

\* The return statements that come after the division (sum of i*n_i)/total.
PastDivision == {"alpha_guard", "bisection"}

\* C20: in the exact polyprotic solver, whenever the speciation has been
\* computed (nOH < n*nA) and its sum total is below 1e-15, the solver has
\* returned the hydrolysis value of the last conjugate base from the
\* statement before the division (sum of i*n_i)/total; and whenever it has
\* returned from a statement after that division, total >= 1e-15 > 0.
UnderflowFallback ==
  ExactPolyprotic =>
    /\ Lt(MolesTitrant(state), FullNeutralisation(state))
         /\ Lt(TotalOf(state), Lit(1, -15)) =>
         path = "underflow" /\ pH = HydrolysisValue(impl, state, LastPKa(state))
    /\ path \in PastDivision =>
         Ge(TotalOf(state), Lit(1, -15)) /\ Gt(TotalOf(state), Zero)

\* 2.5e-16 mol of a triprotic acid with half as much base delivered: total is
\* positive and below 1e-15, and the value returned is the hydrolysis one.
UnderflowFallbackWitness ==
  /\ ExactPolyprotic
  /\ state.type = "strong_base_triprotic_acid"
  /\ Interior(state)
  /\ Gt(TotalOf(state), Zero)
  /\ Lt(TotalOf(state), Lit(1, -15))
  /\ path = "underflow"
  /\ pH = HydrolysisValue(impl, state, state.pKa3)
  /\ Gt(pH, Zero)

(***************************************************************************)
(* A call of calcPH followed through its bisection loop, one pass of the   *)
(* loop body at a time (SpecLoops), from the statement the call reaches     *)
(* first.  loop.lo and loop.hi are the variables lo and hi of the loop,    *)
(* loop.sys the constants its body reads, pc.i its counter i.              *)
(***************************************************************************)
\* Every loop body ending in a break statement.
Breaks_always(sys) == TRUE

\* The loop whose body ends in a break statement (excess branch of the exact
\* _weakAcidWeakBase).
Breaks(sys) == sys.loop = "wawb_excess"

\* The call calcPH(s) at the statement it reaches first: the for statement of
\* a loop, with lo = 1e-14 and hi = hi0, or a return statement.
CallFrame(i, s) ==
  LET r == Solve(i, s)
  IN IF "sys" \in DOMAIN r
       THEN [sys |-> r.sys, lo |-> LoStart, hi |-> r.hi0, hi0 |-> r.hi0,
             path |-> r.path, ret |-> r.pH]
       ELSE [NoLoop EXCEPT !.path = r.path, !.ret = r.pH]

\* Where the call is: at the test of a for statement with its counter i, at
\* a return statement reached without a loop, after a break, or returned.
PCs == [at : {"loop", "return", "broken", "exited"}, i : 0..Iterations]
AtEntry(frame) == [at |-> IF frame.sys.loop = "none" THEN "return" ELSE "loop", i |-> 0]

\* calcPH returns without having entered a loop.
ReturnWithoutLoop ==
  /\ pc.at = "return"
  /\ pH' = loop.ret
  /\ path' = loop.path
  /\ done' = done \cup {"pH"}
  /\ pc' = [pc EXCEPT !.at = "exited"]
  /\ UNCHANGED <<impl, state, eqPoints, additions, loop, curve>>

\* i < 150: one pass of the body, then i++.
LoopPass ==
  /\ pc.at = "loop"
  /\ pc.i < Iterations
  /\ ~Breaks(loop.sys)
  /\ LET s == Call("loopBody", <<loop.sys, <<loop.lo, loop.hi>>>>)
     IN loop' = [loop EXCEPT !.lo = s[1], !.hi = s[2]]
  /\ pc' = [pc EXCEPT !.i = @ + 1]
  /\ UNCHANGED <<impl, state, pH, path, eqPoints, done, additions, curve>>

\* i < 150: the body runs to its break statement.
LoopBreak ==
  /\ pc.at = "loop"
  /\ pc.i < Iterations
  /\ Breaks(loop.sys)
  /\ pc' = [pc EXCEPT !.at = "broken"]
  /\ UNCHANGED <<impl, state, pH, path, eqPoints, done, additions, loop, curve>>

\* The loop is left (i < 150 is false, or break): the return statement after it.
LoopExit ==
  /\ \/ pc.at = "loop" /\ pc.i >= Iterations
     \/ pc.at = "broken"
  /\ pH' = IF pc.at = "broken" THEN loop.ret
           ELSE clampPH(Neg(Log10(Sqrt(Mul(loop.lo, loop.hi)))))
  /\ path' = loop.path
  /\ done' = done \cup {"pH"}
  /\ pc' = [pc EXCEPT !.at = "exited"]
  /\ UNCHANGED <<impl, state, eqPoints, additions, loop, curve>>

\* The call moves on from where it is.
Advance == pc.at # "exited" /\ pc' \in PCs

\* Inputs of every type with a loop, before, inside and past the buffer regions.
LoopVolGrid == {Zero, Lit(125, -1), Lit(249, -1), Lit(375, -1), Lit(625, -1)}
LoopGrid ==
  {s \in RegimeGrid : s.titrantVol \in LoopVolGrid /\ s.pKa = Lit(474, -2) /\ s.pKb = Lit(474, -2)}

InitLoops ==
  /\ impl \in Impls
  /\ state \in LoopGrid
  /\ pH = Undefined
  /\ path = "none"
  /\ eqPoints = <<>>
  /\ done = {}
  /\ additions = 0
  /\ loop = CallFrame(impl, state)
  /\ pc = AtEntry(loop)
  /\ curve = NoCurve

NextLoops ==
  \/ ReturnWithoutLoop
  \/ LoopPass
  \/ LoopBreak
  \/ LoopExit

SpecLoops == InitLoops /\ [][NextLoops]_vars

\* The engine runs a call to its end: while the call has not returned, its
\* next step is not postponed for ever.  Every step of NextLoops changes pc,
\* and one is possible exactly when pc.at is not "exited".
SpecLoopsFair == SpecLoops /\ WF_pc(Advance)

\* calcPH has returned after a loop.
ReturnedAfterLoop == "pH" \in done /\ pc.at = "exited" /\ loop.sys.loop # "none"

\* C21, as amended: calcPH terminates on every input; every bisection loop
\* whose lo and hi are used has made exactly 150 passes when it is left, and
\* the loop of the excess branch of _weakAcidWeakBase, whose lo and hi are
\* not used, is left by break in its first pass, before its first i++.
FixedIterationCount ==
  /\ [](ReturnedAfterLoop => pc.i = IF loop.sys.loop = "wawb_excess" THEN 0 ELSE 150)
  /\ <>("pH" \in done)

\* A weak-acid buffer input: the loop was left with i = 150 and the value
\* returned after it is the value of the call.
FixedIterationCountWitness ==
  /\ ReturnedAfterLoop
  /\ loop.sys.loop = "sbwa"
  /\ pc.i = 150
  /\ Lt(loop.lo, loop.hi) \/ loop.lo = loop.hi
  /\ pH = Solve(impl, state).pH

\* C21, as stated: calcPH terminates on every input, and every bisection loop
\* has made exactly 150 passes when it is left.
EveryLoopRunsToTheEnd ==
  /\ [](ReturnedAfterLoop => pc.i = 150)
  /\ <>("pH" \in done)

\* The hi a loop starts from: 1.0 in the monoprotic solvers, 10.0 in
\* _exactDiprotic and _exactTriprotic.
StartHi(sys) == IF sys.loop \in {"diprotic", "triprotic"} THEN Ten ELSE One

\* The bracket at the test of the for statement.
BracketInLoop ==
  pc.at = "loop" =>
    LET H == Sqrt(Mul(loop.lo, loop.hi))
    IN /\ loop.hi0 = StartHi(loop.sys)
       /\ pc.i = 0 => loop.lo = LoStart /\ loop.hi = loop.hi0
       /\ Le(LoStart, loop.lo) /\ Le(loop.lo, H) /\ Le(H, loop.hi) /\ Le(loop.hi, loop.hi0)

\* The value returned after a loop that ran to its end is that of an H
\* between 1e-14 and the hi the loop started from.
ValueFromBracket ==
  ReturnedAfterLoop /\ ~Breaks(loop.sys) =>
    LET H == Sqrt(Mul(loop.lo, loop.hi))
    IN /\ Le(LoStart, H) /\ Le(H, loop.hi0)
       /\ pH = clampPH(Neg(Log10(H)))

\* One pass replaces exactly one endpoint by H.
OneEndpointReplaced ==
  pc.at = "loop" /\ pc'.at = "loop" /\ pc'.i = pc.i + 1 =>
    LET H == Sqrt(Mul(loop.lo, loop.hi))
    IN \/ loop'.hi = H /\ loop'.lo = loop.lo
       \/ loop'.lo = H /\ loop'.hi = loop.hi

\* C22, as amended: every bisection starts from lo = 1e-14 and from hi = 1
\* (hi = 10 in _exactDiprotic and _exactTriprotic), takes H = sqrt(lo*hi) and
\* replaces exactly one endpoint by H in each pass, so that
\* 1e-14 <= lo <= H <= hi <= the starting hi holds at every pass and the
\* value used for pH after the loop lies between 1e-14 and the starting hi.
BisectionBracket ==
  /\ [](BracketInLoop /\ ValueFromBracket)
  /\ [][OneEndpointReplaced]_vars

\* A diprotic input whose loop has run to its end: lo has been replaced and
\* has stayed below hi, hi is above 1, and the value returned is that of
\* sqrt(lo*hi).
BisectionBracketWitness ==
  /\ ReturnedAfterLoop
  /\ pc.i = 150
  /\ loop.sys.loop = "diprotic"
  /\ Lt(LoStart, loop.lo)
  /\ Le(loop.lo, loop.hi)
  /\ Lt(One, loop.hi)
  /\ pH = clampPH(Neg(Log10(Sqrt(Mul(loop.lo, loop.hi)))))

\* C22, as stated: every bisection starts from lo = 1e-14 and hi = 1, and
\* 1e-14 <= lo <= H <= hi <= 1 holds at every pass.
BracketWithinOne ==
  pc.at = "loop" =>
    LET H == Sqrt(Mul(loop.lo, loop.hi))
    IN /\ pc.i = 0 => loop.lo = LoStart /\ loop.hi = One
       /\ Le(LoStart, loop.lo) /\ Le(loop.lo, H) /\ Le(H, loop.hi) /\ Le(loop.hi, One)

\* C23: in each bisection the root of the scored function lies in [lo, hi]
\* at every pass, the initial bracket included: the test that moves hi fails
\* at lo and succeeds at hi.
RootBracketed ==
  pc.at = "loop" /\ ~Breaks(loop.sys) =>
    ~MovesHi(loop.sys, loop.lo) /\ MovesHi(loop.sys, loop.hi)

(***************************************************************************)
(* posQuadRoot applied to arguments of either sign (SpecQuad).  state      *)
(* holds the arguments a, b and c of the call, pH the value returned.      *)
(***************************************************************************)
QuadA == {Half, One, Two}
QuadB == {Neg(Three), Neg(Two), Neg(One), Zero, One, Two, Three}
QuadC == {Neg(Two), Neg(One), Zero, One, Two}

InitQuad ==
  /\ impl \in Impls
  /\ state \in [a : QuadA, b : QuadB, c : QuadC]
  /\ pH = Undefined
  /\ path = "none"
  /\ eqPoints = <<>>
  /\ done = {}
  /\ additions = 0
  /\ loop = NoLoop
  /\ pc = [at |-> "exited", i |-> 0]
  /\ curve = NoCurve

\* A call posQuadRoot(a, b, c); the function is the same in both
\* implementations.
CallPosQuadRoot ==
  /\ done = {}
  /\ pH' = posQuadRoot(state.a, state.b, state.c)
  /\ done' = {"posQuadRoot"}
  /\ UNCHANGED <<impl, state, path, eqPoints, additions, loop, pc, curve>>

SpecQuad == InitQuad /\ [][CallPosQuadRoot]_vars

\* b*b - 4*a*c, as the function computes it.
Discriminant(q) == Sub(Mul(q.b, q.b), Mul(Mul(Four, q.a), q.c))

\* x solves a*x^2 + b*x + c = 0 up to the rounding of the arithmetic.
SolvesQuadratic(q, x) ==
  LET ax2 == Mul(Mul(q.a, x), x)
      bx == Mul(q.b, x)
  IN Le(Abs(Add(Add(ax2, bx), q.c)), Mul(Lit(1, -6), Add(Add(ax2, Abs(bx)), Abs(q.c))))

\* C24, as amended: posQuadRoot(a, b, c) returns 0 when the discriminant is
\* negative and otherwise the larger root (-b + sqrt(disc)) / (2a) of
\* a*x^2 + b*x + c = 0, for every a > 0 and every b, c; that root is
\* non-negative when b <= 0 or c <= 0.
PosQuadRootLargerRoot ==
  done = {"posQuadRoot"} =>
    IF Lt(Discriminant(state), Zero) THEN pH = Zero
    ELSE /\ SolvesQuadratic(state, pH)
         /\ Ge(Mul(Mul(Two, state.a), pH), Neg(state.b))
         /\ Le(state.b, Zero) \/ Le(state.c, Zero) => Ge(pH, Zero)

\* x^2 + x - 2 = 0: the root 1 is returned, not -2.
PosQuadRootLargerRootWitness ==
  /\ done = {"posQuadRoot"}
  /\ state = [a |-> One, b |-> One, c |-> Neg(Two)]
  /\ pH = One

\* C24, as stated: posQuadRoot(a, b, c) returns 0 when the discriminant is
\* negative, and otherwise a non-negative root, for every a > 0 and every
\* b, c.
PosQuadRootNonNegative ==
  done = {"posQuadRoot"} =>
    IF Lt(Discriminant(state), Zero) THEN pH = Zero
    ELSE SolvesQuadratic(state, pH) /\ Ge(pH, Zero)

\* C25: on every path of calcPH with a total volume above 0 and non-negative
\* inputs, no ratio has a zero denominator and no logarithm is taken of zero
\* or of a negative number: the value handed to clampPH, where a logarithm
\* of zero arrives as an infinity and one of a negative number as NaN, is a
\* finite number.
NoLogarithmOfZero ==
  "pH" \in done /\ Gt(TotalVolume(state), Zero) =>
    LET r == Solve(impl, state)
    IN "raw" \in DOMAIN r => IsFin(r.raw)

(***************************************************************************)
(* Titrations followed from several starting volumes of a 10 mL analyte    *)
(* (SpecSweep): the equivalences lie at 10, 20 and 30 mL of titrant.       *)
(***************************************************************************)
SweepVolGrid == {Zero, Lit(995, -2), Lit(1995, -2), Lit(2995, -2)}

InitSweep ==
  /\ impl \in Impls
  /\ state \in {[BaseState EXCEPT !.type = t, !.analyteVol = Ten, !.titrantVol = v] :
                  t \in Types, v \in SweepVolGrid}
  /\ pH = Undefined
  /\ path = "none"
  /\ eqPoints = <<>>
  /\ done = {}
  /\ additions = 0
  /\ loop = NoLoop
  /\ pc = [at |-> "exited", i |-> 0]
  /\ curve = NoCurve

SpecSweep == InitSweep /\ [][Next]_vars

\* The place of a branch of the solvers in the order initial, buffer,
\* equivalence zone, next buffer, next equivalence zone, ..., excess.  The
\* exact polyprotic solver has one branch (the bisection, or its fallback
\* when the species total underflows) from the start up to its guard before
\* the last equivalence.
RegimeRank(p) ==
  CASE p = "none" -> 0
    [] p \in {"initial", "analyte_excess"} -> 1
    [] p \in {"buffer", "buffer1", "bisection", "underflow"} -> 2
    [] p \in {"equivalence", "eq1", "neutral"} -> 3
    [] p \in {"buffer2", "buffer2_empty"} -> 4
    [] p = "eq2" -> 5
    [] p \in {"buffer3", "buffer3_empty"} -> 6
    [] p \in {"eq3", "alpha_guard"} -> 7
    [] p = "at_last_eq" -> 8
    [] p \in {"excess", "titrant_excess"} -> 9

\* C26: for a fixed type and fixed analyte parameters, along any sequence of
\* titrant additions the branch selected by calcPH only moves forward
\* through initial, buffer, equivalence zone, (next buffer, next equivalence
\* zone,) excess: no step of a titration selects an earlier branch than the
\* one selected before it, and the branch is the one calcPH selects for the
\* volume reached.
RegimeProgression ==
  [][/\ Le(state.titrantVol, state'.titrantVol)
     /\ RegimeRank(path') >= RegimeRank(path)
     /\ "pH" \in done' => path' = Solve(impl, state').path]_vars

\* A triprotic titration that has gone drop by drop from 19.95 mL, inside
\* the second equivalence zone, past 20.10 mL into the third buffer region.
RegimeProgressionWitness ==
  /\ impl = "hh"
  /\ state.type = "strong_base_triprotic_acid"
  /\ additions = 4
  /\ path = "buffer3"
  /\ Gt(state.titrantVol, Lit(201, -1))
  /\ Lt(state.titrantVol, Lit(2025, -2))

(***************************************************************************)
(* calcPH called at the marker volumes (SpecMarkers): the host moves       *)
(* titrantVol to a volume calcEquivalencePoints has returned.              *)
(***************************************************************************)
MarkerConcGrid == {Lit(1, -6), Lit(7, -7), Lit(49, -8), Lit(88, -8)}
MarkerVolGrid == {FromInt(25), Lit(145, -1)}
MarkerGrid ==
  {[BaseState EXCEPT !.type = t, !.analyteConc = ac, !.analyteVol = av, !.titrantConc = tc] :
     t \in Types, ac \in MarkerConcGrid, av \in MarkerVolGrid, tc \in MarkerConcGrid}

InitMarkers ==
  /\ impl \in Impls
  /\ state \in MarkerGrid
  /\ pH = Undefined
  /\ path = "none"
  /\ eqPoints = <<>>
  /\ done = {}
  /\ additions = 0
  /\ loop = NoLoop
  /\ pc = [at |-> "exited", i |-> 0]
  /\ curve = NoCurve

\* calcPH({...state, titrantVol: eqPoints[i - 1].volume}); additions keeps i.
CalcPHAtMarker(i) ==
  /\ done = {"eq"}
  /\ i \in 1..Len(eqPoints)
  /\ LET r == Solve(impl, [state EXCEPT !.titrantVol = eqPoints[i].volume])
     IN /\ state' = [state EXCEPT !.titrantVol = eqPoints[i].volume]
        /\ pH' = r.pH
        /\ path' = r.path
  /\ done' = {"eq", "pH"}
  /\ additions' = i
  /\ UNCHANGED <<impl, eqPoints, loop, pc, curve>>

NextMarkers ==
  \/ done = {} /\ CalcEquivalencePoints
  \/ \E i \in 1..3 : CalcPHAtMarker(i)

SpecMarkers == InitMarkers /\ [][NextMarkers]_vars

\* calcPH has been called at the i-th marker volume.
AtMarker(i) == done = {"eq", "pH"} /\ additions = i

\* The branches that treat an equivalence: 7.00 for strong/strong, the
\* hydrolysis formulas, the amphiprotic midpoints, and the bisection of the
\* exact polyprotic solvers at an alpha_target of i.
EquivalenceTreatment(i) ==
  \/ path \in {"neutral", "equivalence", "eq1", "eq2", "eq3", "at_last_eq", "alpha_guard"}
  \/ /\ path = "bisection"
     /\ Near(AlphaTargetOf(state), FromInt(i), Lit(1, -6))

\* C27: calcPH at the i-th volume returned by calcEquivalencePoints stands
\* exactly at the i-th equivalence, nT = i*nA: strong/strong returns 7.00,
\* and the weak and polyprotic solvers apply their equivalence treatment,
\* not a buffer-region or excess-titrant formula.
MarkersAgreeWithSolver ==
  \A i \in 1..3 :
    AtMarker(i) =>
      /\ MolesTitrant(state) = Mul(FromInt(i), MolesAnalyte(state))
      /\ EquivalenceTreatment(i)
      /\ state.type \in StrongStrong => pH = Neutral

\* The buffer stage k a piecewise polyprotic solver has answered from, 0 when
\* it has answered from another branch.
BufferStage ==
  CASE path = "buffer1" -> 1
    [] path = "buffer2" -> 2
    [] path = "buffer3" -> 3
    [] OTHER -> 0

\* pKa_k
StagePKa(s, k) == IF k = 1 THEN s.pKa ELSE IF k = 2 THEN s.pKa2 ELSE s.pKa3

\* The base formed in stage k, nOH - (k - 1)*nA.
StageBase(s, k) == Sub(MolesTitrant(s), Mul(FromInt(k - 1), MolesAnalyte(s)))

\* C28: in buffer stage k of the piecewise polyprotic solvers the two species
\* of the ratio are non-negative and sum to nA (the base formed in the stage
\* and what is left of nA), so that at nOH = (k - 1/2)*nA the ratio is 1 and
\* the pH returned is pKa_k.
StageHalfEquivalence ==
  "pH" \in done /\ impl = "hh" /\ state.type \in PolyTypes /\ BufferStage > 0 =>
    LET k == BufferStage
        base == StageBase(state, k)
        acid == Sub(MolesAnalyte(state), base)
    IN /\ Ge(base, Zero) /\ Ge(acid, Zero)
       /\ Near(pH, clampPH(Add(StagePKa(state, k), Log10(Div(base, acid)))), Lit(1, -3))
       /\ base = acid => Near(pH, StagePKa(state, k), Lit(1, -3))

\* The properties of the state object that hold derived values.
DerivedFields == {"targetPH", "equivalencePoints"}

\* C29, as amended: refreshing the readouts leaves every property of the
\* state object other than targetPH and equivalencePoints exactly as it was
\* before the call; updateReadouts sets targetPH to the value calcPH
\* returned and equivalencePoints to what calcEquivalencePoints returned,
\* and the other properties are written only by titrant additions.
ReadoutsWriteDerivedOnly ==
  [][additions' = additions =>
       /\ DOMAIN state' = DOMAIN state
       /\ \A f \in DOMAIN state \ DerivedFields : state'[f] = state[f]
       /\ state' # state =>
            /\ state'.targetPH = Solve(impl, state).pH
            /\ state'.equivalencePoints = EqPoints(state)]_vars

\* The readouts have been refreshed before any titrant was added: the state
\* object holds the pH and the marker of the untouched input.
ReadoutsWriteDerivedOnlyWitness ==
  /\ additions = 0
  /\ done = {"pH", "eq"}
  /\ state.titrantVol = Zero
  /\ state.targetPH = pH
  /\ pH # Undefined
  /\ Len(state.equivalencePoints) > 0
  /\ state.equivalencePoints = eqPoints

\* C29, as stated: refreshing the readouts leaves every property of the
\* state object exactly as it was before the call; the state object is
\* written only by titrant additions.
ReadoutsLeaveStateUnchanged == [][additions' = additions => state' = state]_vars

(***************************************************************************)
(* The curve object of ui.js under its five operations (SpecCurve).  The   *)
(* host adds the points of a titration in drops of 5 mL; a click arrives   *)
(* as the x it is converted to.                                            *)
(***************************************************************************)
MaxPoints == 11
MinPoints == 10                        \* if (curve.points.length < 10)
CurvePHs == {Three, FromInt(11)}
ClickXs == {Zero, Lit(124, -1), Lit(126, -1), FromInt(60)}

resetCurve ==
  /\ curve' = [points |-> <<>>, selectedIndex |-> Null]
  /\ UNCHANGED <<impl, state, pH, path, eqPoints, done, additions, loop, pc>>

\* addCurvePoint(x, pH) for the next drop of the titration.
addCurvePoint(y) ==
  /\ Len(curve.points) < MaxPoints
  /\ curve' = [curve EXCEPT !.points =
                 Append(@, [x |-> FromInt(5 * Len(curve.points)), y |-> y])]
  /\ UNCHANGED <<impl, state, pH, path, eqPoints, done, additions, loop, pc>>

\* handleCurveClick for a click converted to x.
handleCurveClick(x) ==
  /\ curve' = [curve EXCEPT !.selectedIndex = Call("_nearestIndexByX", <<curve.points, x>>)]
  /\ UNCHANGED <<impl, state, pH, path, eqPoints, done, additions, loop, pc>>

detectEquivalencePoint ==
  /\ curve' = IF Len(curve.points) < MinPoints THEN curve
              ELSE [curve EXCEPT !.selectedIndex = <<Call("steepest", <<curve.points>>)>>]
  /\ UNCHANGED <<impl, state, pH, path, eqPoints, done, additions, loop, pc>>

clearSelection ==
  /\ curve' = [curve EXCEPT !.selectedIndex = Null]
  /\ UNCHANGED <<impl, state, pH, path, eqPoints, done, additions, loop, pc>>

InitCurve ==
  /\ impl = "exact"
  /\ state = BaseState
  /\ pH = Undefined
  /\ path = "none"
  /\ eqPoints = <<>>
  /\ done = {}
  /\ additions = 0
  /\ loop = NoLoop
  /\ pc = [at |-> "exited", i |-> 0]
  /\ curve = NoCurve

NextCurve ==
  \/ resetCurve
  \/ \E y \in CurvePHs : addCurvePoint(y)
  \/ \E x \in ClickXs : handleCurveClick(x)
  \/ detectEquivalencePoint
  \/ clearSelection

SpecCurve == InitCurve /\ [][NextCurve]_vars

\* selectedIndex is null or the index of a point.
ValidSelection(c) ==
  \/ c.selectedIndex = Null
  \/ /\ Len(c.selectedIndex) = 1
     /\ c.selectedIndex[1] \in 0..(Len(c.points) - 1)

\* C30: after any sequence of resetCurve, addCurvePoint, handleCurveClick,
\* detectEquivalencePoint and clearSelection, curve.selectedIndex is null or
\* an integer i with 0 <= i < curve.points.length; resetCurve leaves points
\* empty and selectedIndex null, and a click on an empty curve leaves
\* selectedIndex null.
SelectionStaysValid ==
  /\ []ValidSelection(curve)
  /\ [][/\ Len(curve'.points) < Len(curve.points) => curve' = NoCurve
        /\ Len(curve.points) = 0 /\ Len(curve'.points) = 0 => curve'.selectedIndex = Null]_vars

\* The steepest point of a curve of eleven points has been detected: it is
\* an interior point, where the pH jumps.
SelectionStaysValidWitness ==
  /\ Len(curve.points) = 11
  /\ curve.selectedIndex = <<6>>
  /\ At(curve.points, 5).y = Three
  /\ At(curve.points, 6).y = Three
  /\ At(curve.points, 7).y = FromInt(11)
====
